---- MODULE Spec2Model ----
(***************************************************************************)
(* shellfirm MCP: the command interceptor (command-interceptor.ts), the    *)
(* browser challenge controller in its two versions (the one-shot resolver *)
(* of browser-challenge.ts and the older polling controller), the WASM     *)
(* wrapper (shellfirm-wasm.ts) and the validation engine behind it.        *)
(***************************************************************************)
EXTENDS Integers, Sequences, FiniteSets, TLC

\* ------------------------------------------------------------------ bounds
\* HTTP requests one challenge session handles
MaxRequests == 2
\* answers the user types into one challenge page
MaxSubmissions == 4
\* characters of a command line given to the validation engine
MaxLen == 4
\* connections clients keep open to one challenge server
MaxSockets == 1
\* calls of cleanup() on one BrowserChallenge instance
MaxCleanups == 2
\* free ports the system can hand to listen(0)
MaxPorts == 2
\* longest command text given to the challenge page
MaxText == 2
\* most matches handed to one challenge
MaxMatches == 2
\* most calls made into shellfirm-wasm.ts
MaxCalls == 2

\* ------------------------------------------------------- optional values
\* null / undefined is the empty sequence, a present value x is <<x>>
Null == <<>>
Some(x) == <<x>>
IsNull(o) == o = <<>>
Val(o) == o[1]

\* ------------------------------------------------------------- the types
ChallengeTypes == {"confirm", "math", "word", "block"}

Controllers == {"resolver", "polling"}

Methods == {"GET", "POST", "OPTIONS"}

Urls == {"/", "/approve", "/approve/", "/deny", "/deny/", "/favicon.ico", "/other"}

\* two matched checks the validator can report
CheckA == [id |-> "fs:recursively_delete", severity |-> "critical",
           description |-> "You are going to delete everything in the path."]
CheckB == [id |-> "git:force_push", severity |-> "high",
           description |-> "This command will override remote history."]

MatchLists == {<<>>, <<CheckA>>, <<CheckB>>, <<CheckA, CheckB>>}

\* every value of the ValidationResult interface the validator may hand back
ValidationResults ==
  [matches : MatchLists, should_challenge : BOOLEAN, should_deny : BOOLEAN]

\* ------------------------------------------------------- challenge results
ApprovedResult(t) == [approved |-> TRUE, type |-> t, error |-> ""]
DeniedResult(t) == [approved |-> FALSE, type |-> t, error |-> ""]
\* a timeout result without its error text
TimeoutWithoutError(t) == [approved |-> FALSE, type |-> t, error |-> ""]

TimeoutResult(t) ==
  [approved |-> FALSE, type |-> t,
   error |-> "Challenge timeout - user did not respond in time"]
ErrorResult(t) == [approved |-> FALSE, type |-> t, error |-> "Challenge error"]

\* --------------------------------------------------------------- the state
VARIABLES
  controller,        \* which BrowserChallenge version is linked in
  ipc,               \* position of interceptCommand
  challengeType,     \* interceptCommand's challengeType argument
  validationResult,  \* what validateSplitCommandWithOptions returned
  interceptResult,   \* what interceptCommand returned
  execCalls,         \* invocations of execAsync in this call
  execOptions,       \* what executeCommand was given and what it gave exec
  spc,               \* position of showChallenge
  server,            \* this.server: "null", "created", "listening", "closing"
  challengeResult,   \* this.challengeResult
  resolveChallenge,  \* this.resolveChallenge is set
  immediate,         \* the setImmediate(() => resolver(result)) in flight
  challengePromise,  \* settled value of challengePromise
  timeoutId,         \* the deadline timer is armed
  intervalId,        \* the polling interval is armed
  retval,            \* what showChallenge returned
  sessions,          \* challenge sessions opened by this call
  events,            \* /approve, /deny and deadline events since the
                     \* controller awaits a verdict, in order
  resolverCalls,     \* invocations of the one-shot resolver
  reqCount,          \* requests handled by the session's server
  page,              \* the challenge page loaded in the browser
  sockets,           \* connections open to the server (this.sockets in the
                     \* resolver version, untracked in the polling version)
  cancelled,         \* cleanup() was called on a pending session
  cleanups,          \* outcome of each cleanup() call made by the instance's
                     \* holder, in order
  insts,             \* the BrowserChallenge instances of concurrent static
                     \* showChallenge calls
  command,           \* the command line given to the validator
  vpc,               \* position of the validation call
  options,           \* the ValidationOptions of the call
  pathExists,        \* whether the path a rule's predicate probes exists
  vresult,           \* the ValidationResult of the call
  challengeData,     \* the ChallengeData interceptCommand builds
  html,              \* the template context serveChallengeHTML builds
  startup,           \* the --challenge flag of the daemon and what main()
                     \* did with it
  lastReq,           \* method and url of the request handled last, where
                     \* requests are watched
  toolResponse,      \* what the validate_shell_command tool answered
  wasm,              \* the wasmModule variable of shellfirm-wasm.ts and the
                     \* module it refers to
  calls              \* the calls made into shellfirm-wasm.ts, each with
                     \* the WASM objects it created

evars == <<command, vpc, options, pathExists, vresult>>
rvars == <<challengeData, html, startup, lastReq, toolResponse, wasm, calls>>
cvars == <<sockets, cancelled, cleanups, insts, rvars>>
ivars == <<ipc, challengeType, validationResult, interceptResult, execCalls,
           execOptions>>
svars == <<spc, server, challengeResult, resolveChallenge, immediate,
           challengePromise, timeoutId, intervalId, retval, sessions,
           events, resolverCalls, reqCount>>
vars == <<controller, ipc, challengeType, validationResult, interceptResult,
          execCalls, execOptions, spc, server, challengeResult,
          resolveChallenge,
          immediate, challengePromise, timeoutId, intervalId, retval,
          sessions, events, resolverCalls, reqCount, page, sockets,
          cancelled, cleanups, insts, command, vpc,
          options, pathExists, vresult, challengeData, html,
          startup, lastReq, toolResponse, wasm, calls>>

\* no page loaded
NoPage == [loaded |-> FALSE, attempts |-> 0, isSubmitting |-> FALSE,
           enterGuard |-> FALSE, approveTimer |-> FALSE, denyTimer |-> FALSE,
           submissions |-> 0, passed |-> FALSE, wrong |-> 0]

\* let wasmModule: WasmModule | null = null, nothing loaded; pkgExists,
\* loads and inits tell what the installation lets happen: whether the pkg
\* directory is there, whether require and the module's init() succeed
NoWasm == [module |-> "null", ready |-> FALSE, failed |-> FALSE,
           loadCalls |-> 0, initCalls |-> 0,
           pkgExists |-> TRUE, loads |-> TRUE, inits |-> TRUE]

\* main() has not run
NoStartup == [challenge |-> Null, parsed |-> FALSE, warned |-> FALSE]

\* options = {} : nothing denied, every severity allowed
NoOptions == [deny_pattern_ids |-> {}, allowed_severities |-> {}]

Init ==
  /\ controller \in Controllers
  /\ ipc = "idle"
  /\ challengeType = "confirm"
  /\ validationResult = Null
  /\ interceptResult = Null
  /\ execCalls = 0
  /\ execOptions = Null
  /\ spc = "idle"
  /\ server = "null"
  /\ challengeResult = Null
  /\ resolveChallenge = FALSE
  /\ immediate = Null
  /\ challengePromise = Null
  /\ timeoutId = FALSE
  /\ intervalId = FALSE
  /\ retval = Null
  /\ sessions = 0
  /\ events = <<>>
  /\ resolverCalls = 0
  /\ reqCount = 0
  /\ page = NoPage
  /\ sockets = 0
  /\ cancelled = FALSE
  /\ cleanups = <<>>
  /\ insts = <<>>
  /\ command = <<>>
  /\ vpc = "off"
  /\ options = NoOptions
  /\ pathExists = TRUE
  /\ vresult = Null
  /\ challengeData = Null
  /\ html = Null
  /\ startup = NoStartup
  /\ lastReq = Null
  /\ toolResponse = Null
  /\ wasm = NoWasm
  /\ calls = <<>>

\* ---------------------------------------------------- CommandInterceptor
\* validationResult.matches.map(check => check.description)
Descriptions(matches) == [i \in 1..Len(matches) |-> matches[i].description]

\* executeCommand turning an execution failure into a denial
ExecFailureDenies(ok) ==
  [allowed |-> ok,
   error |-> IF ok THEN "" ELSE "exec failed",
   message |-> IF ok THEN "Command executed successfully"
               ELSE "Command was allowed but execution failed",
   reasons |-> <<>>]

\* what executeCommand returns: ok is whether execAsync resolved
SafeExecuted(ok) ==
  [allowed |-> TRUE,
   error |-> IF ok THEN "" ELSE "exec failed",
   message |-> IF ok THEN "Command executed successfully"
               ELSE "Command was allowed but execution failed",
   reasons |-> <<>>]

PolicyDenied(matches) ==
  [allowed |-> FALSE, error |-> "Security policy violation",
   message |-> "Shellfirm MCP: Command denied by security policy. Reasons:",
   reasons |-> Descriptions(matches)]

PolicyBlocked(matches) ==
  [allowed |-> FALSE, error |-> "Command blocked by security policy",
   message |-> "Shellfirm MCP: Command blocked by security policy. This command cannot be executed. Reasons:",
   reasons |-> Descriptions(matches)]

\* the not-approved branch: the message ends with challengeResult.error, or
\* with a default text when that is empty; the error field is fixed
UserDenied(err) ==
  [allowed |-> FALSE, error |-> "User denial or challenge failure",
   message |->
     CASE err = "" ->
            "Shellfirm MCP: Command denied by user. User chose not to approve the command."
       [] err = "Challenge timeout - user did not respond in time" ->
            "Shellfirm MCP: Command denied by user. Challenge timeout - user did not respond in time"
       [] OTHER -> "Shellfirm MCP: Command denied by user. Challenge error",
   reasons |-> <<>>]

ChallengeFailure ==
  [allowed |-> FALSE, error |-> "Challenge system failure",
   message |-> "Shellfirm MCP: Challenge system error. Command blocked for security.",
   reasons |-> <<>>]

InterceptionError ==
  [allowed |-> FALSE, error |-> "Interception error",
   message |-> "Command blocked due to error", reasons |-> <<>>]

\* interceptCommand is called: it awaits validateSplitCommandWithOptions
InterceptCommand(ct) ==
  /\ ipc = "idle"
  /\ ipc' = "validating"
  /\ challengeType' = ct
  /\ UNCHANGED <<evars, controller, validationResult, interceptResult, execCalls,
                 execOptions, page>>
  /\ UNCHANGED svars
  /\ UNCHANGED cvars

\* Verdict without the should_deny branch
VerdictNoDeny(vr, ct) ==
  IF ~vr.should_challenge THEN "execute"
  ELSE IF ct = "block" THEN "block"
  ELSE "challenge"

\* Verdict testing the block type before should_deny
VerdictBlockBeforeDeny(vr, ct) ==
  IF ~vr.should_challenge THEN "execute"
  ELSE IF ct = "block" THEN "block"
  ELSE IF vr.should_deny THEN "deny"
  ELSE "challenge"

\* Verdict without the block branch
VerdictNoBlock(vr, ct) ==
  IF ~vr.should_challenge THEN "execute"
  ELSE IF vr.should_deny THEN "deny"
  ELSE "challenge"

\* Verdict testing the block type before should_challenge
VerdictBlockFirst(vr, ct) ==
  IF ct = "block" THEN "block"
  ELSE IF ~vr.should_challenge THEN "execute"
  ELSE IF vr.should_deny THEN "deny"
  ELSE "challenge"

\* Verdict testing should_deny before should_challenge
VerdictDenyFirst(vr, ct) ==
  IF vr.should_deny THEN "deny"
  ELSE IF ~vr.should_challenge THEN "execute"
  ELSE IF ct = "block" THEN "block"
  ELSE "challenge"

\* the branch interceptCommand takes on a validation result
Verdict(vr, ct) ==
  IF ~vr.should_challenge THEN "execute"
  ELSE IF vr.should_deny THEN "deny"
  ELSE IF ct = "block" THEN "block"
  ELSE "challenge"

\* interceptCommand after validation resolved with vr: safe ->
\* executeCommand, deny and block -> return, otherwise
\* BrowserChallenge.showChallenge is called
Decided(vr) ==
  /\ ipc = "validating"
  /\ validationResult' = Some(vr)
  /\ LET v == Verdict(vr, challengeType) IN
       /\ ipc' = CASE v = "execute" -> "executing"
                   [] v = "challenge" -> "challenge"
                   [] OTHER -> "done"
       /\ execCalls' = IF v = "execute" THEN execCalls + 1 ELSE execCalls
       /\ interceptResult' = CASE v = "deny" -> Some(PolicyDenied(vr.matches))
                               [] v = "block" -> Some(PolicyBlocked(vr.matches))
                               [] OTHER -> interceptResult
       /\ spc' = IF v = "challenge" THEN "called" ELSE spc
       /\ sessions' = IF v = "challenge" THEN sessions + 1 ELSE sessions
  /\ UNCHANGED <<controller, challengeType, execOptions, page, server,
                 challengeResult,
                 resolveChallenge, immediate, challengePromise, timeoutId,
                 intervalId, retval, events, resolverCalls, reqCount>>
  /\ UNCHANGED cvars

\* validation resolved with the result vr of a validator the caller supplies
ValidationReturns(vr) ==
  /\ Decided(vr)
  /\ UNCHANGED evars

\* validation rejected and nothing catches it: interceptCommand rejects
ValidationThrowsUncaught ==
  /\ ipc = "validating"
  /\ ipc' = "done"
  /\ UNCHANGED <<evars, controller, challengeType, validationResult,
                 interceptResult, execCalls, execOptions, page>>
  /\ UNCHANGED svars
  /\ UNCHANGED cvars

\* validation rejected (WASM failure): the outer catch
ValidationThrows ==
  /\ ipc = "validating"
  /\ ipc' = "done"
  /\ interceptResult' = Some(InterceptionError)
  /\ UNCHANGED <<evars, controller, challengeType, validationResult, execCalls,
                 execOptions, page>>
  /\ UNCHANGED svars
  /\ UNCHANGED cvars

\* the environment of the server process
ProcessEnv == {"PATH", "HOME"}

\* the explicit environment argument of a call
Environments == {{}, {"CUSTOM"}}

\* what the callers pass as the sixth argument of interceptCommand: the
\* --no-propagate-env boolean, or the --propagate-env list of names
PropagateValues ==
  [kind : {"boolean"}, value : BOOLEAN, names : {{}}]
    \cup [kind : {"array"}, value : {TRUE}, names : SUBSET ProcessEnv]

\* if (propagateProcessEnv): every array, the empty one too, is truthy
Truthy(arg) == IF arg.kind = "boolean" THEN arg.value ELSE TRUE

\* options.env as executeCommand builds it: name and origin of each entry,
\* the explicit environment overriding the process environment
ChildEnv(arg, environment) ==
  IF Truthy(arg)
    THEN {<<n, "process">> : n \in ProcessEnv \ environment}
           \cup {<<n, "explicit">> : n \in environment}
    ELSE {<<n, "explicit">> : n \in environment}

\* executeCommand: options.env is built, execAsync is called and settles;
\* the result is allowed=true either way
ExecCompletes(ok, arg, environment) ==
  /\ ipc = "executing"
  /\ ipc' = "done"
  /\ execOptions' = Some([propagate |-> arg, environment |-> environment,
                          env |-> ChildEnv(arg, environment),
                          failed |-> ~ok])
  /\ interceptResult' = Some(SafeExecuted(ok))
  /\ UNCHANGED <<evars, controller, challengeType, validationResult, execCalls, page>>
  /\ UNCHANGED svars
  /\ UNCHANGED cvars

\* BrowserChallenge.showChallenge resolved
ChallengeReturns ==
  /\ ipc = "challenge"
  /\ spc = "returned"
  /\ IF Val(retval).approved
       THEN /\ ipc' = "executing"
            /\ execCalls' = execCalls + 1
            /\ UNCHANGED interceptResult
       ELSE /\ ipc' = "done"
            /\ interceptResult' = Some(UserDenied(Val(retval).error))
            /\ UNCHANGED execCalls
  /\ UNCHANGED <<evars, controller, challengeType, validationResult,
                 execOptions, page>>
  /\ UNCHANGED svars
  /\ UNCHANGED cvars

\* BrowserChallenge.showChallenge rejected: the inner catch
ChallengeThrows ==
  /\ ipc = "challenge"
  /\ spc = "threw"
  /\ ipc' = "done"
  /\ interceptResult' = Some(ChallengeFailure)
  /\ UNCHANGED <<evars, controller, challengeType, validationResult, execCalls,
                 execOptions, page>>
  /\ UNCHANGED svars
  /\ UNCHANGED cvars

\* ------------------------------------------------------- BrowserChallenge
\* a handler that serves /approve and /deny whatever the method
RouteAnyMethod(c, m, u) ==
  IF u \in {"/approve", "/approve/"} THEN "approve"
  ELSE IF u \in {"/deny", "/deny/"} THEN "deny"
  ELSE IF m = "OPTIONS" THEN "options"
  ELSE IF u = "/" /\ m = "GET" THEN "page"
  ELSE IF u = "/favicon.ico" THEN "favicon"
  ELSE "notfound"

\* the branch of the request handler taken for method m and url u
Route(c, m, u) ==
  IF c = "resolver"
    THEN IF m = "OPTIONS" THEN "options"
         ELSE IF u = "/" /\ m = "GET" THEN "page"
         ELSE IF u \in {"/approve", "/approve/"} /\ m \in {"POST", "GET"}
           THEN "approve"
         ELSE IF u \in {"/deny", "/deny/"} /\ m \in {"POST", "GET"}
           THEN "deny"
         ELSE IF u = "/favicon.ico" THEN "favicon"
         ELSE "notfound"
    ELSE IF m = "OPTIONS" THEN "options"
         ELSE IF u = "/" /\ m = "GET" THEN "page"
         ELSE IF u = "/approve" /\ m = "POST" THEN "approve"
         ELSE IF u = "/deny" /\ m = "POST" THEN "deny"
         ELSE "notfound"

\* RaceSettles with a stopChallengeServer that destroys no socket
RaceSettlesKeepsSockets(r) ==
  /\ retval' = Some(r)
  /\ timeoutId' = FALSE
  /\ intervalId' = FALSE
  /\ UNCHANGED sockets
  /\ IF controller = "resolver"
       THEN IF server = "null"
              THEN /\ spc' = "returned"
                   /\ UNCHANGED server
              ELSE /\ spc' = "closing"
                   /\ server' = "closing"
       ELSE /\ spc' = "pageclose"
            /\ UNCHANGED server

\* the promise race settled with r: timers are cleared and the controller
\* goes on to shut the session down; the resolver version's
\* stopChallengeServer destroys the tracked sockets and calls close, or
\* returns at once when this.server is already null
RaceSettles(r) ==
  /\ retval' = Some(r)
  /\ timeoutId' = FALSE
  /\ intervalId' = FALSE
  /\ IF controller = "resolver"
       THEN IF server = "null"
              THEN /\ spc' = "returned"
                   /\ UNCHANGED <<server, sockets>>
              ELSE /\ spc' = "closing"
                   /\ server' = "closing"
                   /\ sockets' = 0
       ELSE /\ spc' = "pageclose"
            /\ UNCHANGED <<server, sockets>>

\* static showChallenge: new BrowserChallenge(), then the instance method
\* creates the HTTP server and calls listen; the polling version launches
\* the browser first
StartChallenge ==
  /\ ipc = "challenge"
  /\ spc = "called"
  /\ spc' = "listen"
  /\ server' = "created"
  /\ UNCHANGED <<evars, controller, page, challengeResult, resolveChallenge,
                 immediate, challengePromise, timeoutId, intervalId, retval,
                 sessions, events, resolverCalls, reqCount>>
  /\ UNCHANGED ivars
  /\ UNCHANGED cvars

\* chromium.launch failed in initialize(): showChallenge rejects
BrowserLaunchFails ==
  /\ controller = "polling"
  /\ ipc = "challenge"
  /\ spc = "called"
  /\ spc' = "threw"
  /\ UNCHANGED <<evars, controller, page, server, challengeResult, resolveChallenge,
                 immediate, challengePromise, timeoutId, intervalId, retval,
                 sessions, events, resolverCalls, reqCount>>
  /\ UNCHANGED ivars
  /\ UNCHANGED cvars

\* the listen callback: startChallengeServer resolves; the resolver version
\* installs the one-shot resolver in the same turn
ServerListening ==
  /\ spc = "listen"
  /\ server' = "listening"
  /\ IF controller = "resolver"
       THEN /\ challengeResult' = Null
            /\ resolveChallenge' = TRUE
            /\ spc' = "notice"
       ELSE /\ spc' = "context"
            /\ UNCHANGED <<challengeResult, resolveChallenge>>
  /\ UNCHANGED <<evars, controller, page, immediate, challengePromise, timeoutId,
                 intervalId, retval, sessions, events, resolverCalls,
                 reqCount>>
  /\ UNCHANGED ivars
  /\ UNCHANGED cvars

\* the server's error event: startChallengeServer rejects, the catch block
\* stops the server and returns the error result
ListenFails ==
  /\ spc = "listen"
  /\ spc' = "closing"
  /\ server' = "closing"
  /\ retval' = Some(ErrorResult(challengeType))
  /\ UNCHANGED <<evars, controller, page, challengeResult, resolveChallenge,
                 immediate, challengePromise, timeoutId, intervalId,
                 sessions, events, resolverCalls, reqCount>>
  /\ UNCHANGED ivars
  /\ UNCHANGED cvars

\* what one request does to the controller
ServerEffect(m, u) ==
  LET r == Route(controller, m, u)
      result == IF r = "approve" THEN ApprovedResult(challengeType)
                ELSE DeniedResult(challengeType)
  IN  /\ reqCount' = reqCount + 1
      /\ IF r \in {"approve", "deny"}
           THEN /\ challengeResult' = Some(result)
                /\ events' = IF spc = "context" THEN events
                              ELSE Append(events, r)
                /\ IF controller = "resolver" /\ resolveChallenge
                     THEN /\ immediate' = Some(result)
                          /\ resolveChallenge' = FALSE
                     ELSE UNCHANGED <<immediate, resolveChallenge>>
           ELSE UNCHANGED <<challengeResult, events, immediate,
                            resolveChallenge>>

\* the page as served by GET /
FreshPage == [NoPage EXCEPT !.loaded = TRUE]

\* the request handler of the session's server on one request
Serve(m, u) ==
  /\ server = "listening"
  /\ reqCount < MaxRequests
  /\ ServerEffect(m, u)
  /\ page' = IF Route(controller, m, u) = "page"
             THEN [FreshPage EXCEPT !.submissions = page.submissions,
                                    !.passed = page.passed]
             ELSE page
  /\ UNCHANGED <<evars, controller, spc, server, challengePromise, timeoutId,
                 intervalId, retval, sessions, resolverCalls>>
  /\ UNCHANGED ivars

\* a request sent to the session's port by any local client
HandleRequest(m, u) ==
  /\ Serve(m, u)
  /\ UNCHANGED cvars

\* the same request, its method and url noted
WatchedRequest(m, u) ==
  /\ Serve(m, u)
  /\ lastReq' = Some(<<m, u>>)
  /\ UNCHANGED <<sockets, cancelled, cleanups, insts, challengeData, html,
                 startup, toolResponse, wasm, calls>>

\* the setImmediate callback: the one-shot resolver runs
RunResolver ==
  /\ controller = "resolver"
  /\ ~IsNull(immediate)
  /\ immediate' = Null
  /\ resolverCalls' = resolverCalls + 1
  /\ challengeResult' = IF IsNull(challengeResult) THEN immediate
                        ELSE challengeResult
  /\ challengePromise' = IF IsNull(challengePromise) THEN immediate
                         ELSE challengePromise
  /\ IF spc = "racing"
       THEN RaceSettles(Val(immediate))
       ELSE UNCHANGED <<spc, server, retval, timeoutId, intervalId, sockets>>
  /\ UNCHANGED <<evars, controller, page, resolveChallenge, sessions, events,
                 reqCount>>
  /\ UNCHANGED ivars
  /\ UNCHANGED <<cancelled, cleanups, insts, rvars>>

\* logNotice resolved: the deadline timer is armed and the race starts; a
\* challengePromise that is already settled wins the race at once
ArmTimeout ==
  /\ controller = "resolver"
  /\ spc = "notice"
  /\ IF IsNull(challengePromise)
       THEN /\ spc' = "racing"
            /\ timeoutId' = TRUE
            /\ UNCHANGED <<server, retval, intervalId, sockets>>
       ELSE RaceSettles(Val(challengePromise))
  /\ UNCHANGED <<evars, controller, page, challengeResult, resolveChallenge,
                 immediate, challengePromise, sessions, events,
                 resolverCalls, reqCount>>
  /\ UNCHANGED ivars
  /\ UNCHANGED <<cancelled, cleanups, insts, rvars>>

\* polling version: context and page are created, the slot is reset and the
\* 100 ms poll is started
StartPolling ==
  /\ controller = "polling"
  /\ spc = "context"
  /\ spc' = "goto"
  /\ challengeResult' = Null
  /\ intervalId' = TRUE
  /\ UNCHANGED <<evars, controller, page, server, resolveChallenge, immediate,
                 challengePromise, timeoutId, retval, sessions, events,
                 resolverCalls, reqCount>>
  /\ UNCHANGED ivars
  /\ UNCHANGED cvars

\* polling version: page.goto resolved, the deadline timer is armed
PageOpened ==
  /\ controller = "polling"
  /\ spc = "goto"
  /\ IF IsNull(challengePromise)
       THEN /\ spc' = "racing"
            /\ timeoutId' = TRUE
            /\ UNCHANGED <<server, retval, intervalId, sockets>>
       ELSE RaceSettles(Val(challengePromise))
  /\ UNCHANGED <<evars, controller, page, challengeResult, resolveChallenge,
                 immediate, challengePromise, sessions, events,
                 resolverCalls, reqCount>>
  /\ UNCHANGED ivars
  /\ UNCHANGED <<cancelled, cleanups, insts, rvars>>

\* polling version: page.goto rejected while the poll is running: the catch
\* block stops the server and returns the error result; intervalId is local
\* to the try block and the catch block clears nothing
PageGotoFails ==
  /\ controller = "polling"
  /\ spc = "goto"
  /\ spc' = "closing"
  /\ server' = "closing"
  /\ retval' = Some(ErrorResult(challengeType))
  /\ UNCHANGED <<evars, controller, page, challengeResult, resolveChallenge,
                 immediate, challengePromise, timeoutId, intervalId,
                 sessions, events, resolverCalls, reqCount>>
  /\ UNCHANGED ivars
  /\ UNCHANGED cvars

\* polling version: a poll tick that finds the slot written
PollTick ==
  /\ controller = "polling"
  /\ intervalId
  /\ ~IsNull(challengeResult)
  /\ challengePromise' = IF IsNull(challengePromise) THEN challengeResult
                         ELSE challengePromise
  /\ IF spc = "racing"
       THEN RaceSettles(Val(challengeResult))
       ELSE /\ intervalId' = FALSE
            /\ UNCHANGED <<spc, server, retval, timeoutId, sockets>>
  /\ UNCHANGED <<evars, controller, page, challengeResult, resolveChallenge,
                 immediate, sessions, events, resolverCalls, reqCount>>
  /\ UNCHANGED ivars
  /\ UNCHANGED <<cancelled, cleanups, insts, rvars>>

\* the deadline: the timeout promise resolves.  A queued setImmediate runs
\* in the check phase that follows the poll phase, before any timer.
DeadlineSettles ==
  /\ spc = "racing"
  /\ timeoutId
  /\ IsNull(immediate)
  /\ events' = Append(events, "timeout")
  /\ RaceSettles(TimeoutResult(challengeType))
  /\ UNCHANGED <<evars, controller, page, challengeResult, resolveChallenge,
                 immediate, challengePromise, sessions, resolverCalls,
                 reqCount>>
  /\ UNCHANGED ivars
  /\ UNCHANGED <<cancelled, cleanups, rvars>>

\* the deadline of the session
DeadlineFires ==
  /\ DeadlineSettles
  /\ UNCHANGED insts

\* polling version: page and context are closed, then the server is stopped
PageClosed ==
  /\ controller = "polling"
  /\ spc = "pageclose"
  /\ IF server = "null"
       THEN /\ spc' = "returned"
            /\ UNCHANGED server
       ELSE /\ spc' = "closing"
            /\ server' = "closing"
  /\ UNCHANGED <<evars, controller, page, challengeResult, resolveChallenge,
                 immediate, challengePromise, timeoutId, intervalId, retval,
                 sessions, events, resolverCalls, reqCount>>
  /\ UNCHANGED ivars
  /\ UNCHANGED cvars

\* the close callback of stopChallengeServer: showChallenge returns, the
\* static wrapper's cleanup finds the server already gone.  The polling
\* version destroys no socket: close calls back once every connection ended
ServerClosed ==
  /\ spc = "closing"
  /\ controller = "polling" => sockets = 0
  /\ server' = "null"
  /\ spc' = "returned"
  /\ UNCHANGED <<evars, controller, page, challengeResult, resolveChallenge,
                 immediate, challengePromise, timeoutId, intervalId, retval,
                 sessions, events, resolverCalls, reqCount>>
  /\ UNCHANGED ivars
  /\ UNCHANGED cvars

\* the server's connection event: a client opened a connection it keeps
ClientConnects ==
  /\ server = "listening"
  /\ sockets < MaxSockets
  /\ sockets' = sockets + 1
  /\ UNCHANGED <<evars, controller, page, cancelled, cleanups, insts, rvars>>
  /\ UNCHANGED ivars
  /\ UNCHANGED svars

\* the socket's close event: a client ended a connection
ClientDisconnects ==
  /\ sockets > 0
  /\ sockets' = sockets - 1
  /\ UNCHANGED <<evars, controller, page, cancelled, cleanups, insts, rvars>>
  /\ UNCHANGED ivars
  /\ UNCHANGED svars

\* ------------------------------------------------------ the challenge page
\* what the user can type: the expected answer, the expected answer followed
\* by other characters, or something else
Texts == {"exact", "padded", "wrong"}

\* const maxAttempts = 3
maxAttempts == 3

\* the comparison of the page script: parseInt(value) === correctAnswer
\* for math (parseInt reads the leading digits), value === targetWord for word
Accepts(kind, text) ==
  IF kind = "math" THEN text \in {"exact", "padded"} ELSE text = "exact"

\* checkAnswerInternal(incrementAttempt) of the resolver version's page,
\* checkAnswer() of the polling version's page
CheckAnswer(pg, kind, via, text) ==
  LET counted == controller = "polling" \/ via = "click"
      n == IF counted THEN pg.attempts + 1 ELSE pg.attempts
      ok == Accepts(kind, text)
  IN  [pg EXCEPT
         !.attempts = n,
         !.isSubmitting = controller = "resolver",
         !.enterGuard = IF controller = "resolver" /\ via = "enter"
                        THEN TRUE ELSE pg.enterGuard,
         !.approveTimer = pg.approveTimer \/ ok,
         !.denyTimer = pg.denyTimer \/ (~ok /\ n >= maxAttempts),
         !.submissions = pg.submissions + 1,
         !.passed = pg.passed \/ text = "exact",
         !.wrong = IF ok \/ pg.wrong = maxAttempts THEN pg.wrong
                   ELSE pg.wrong + 1]

\* the user submits an answer with the approve button or the Enter key
PageSubmit(via, text) ==
  /\ page.loaded
  /\ challengeType \in {"math", "word"}
  /\ page.submissions < MaxSubmissions
  /\ controller = "resolver" => ~page.isSubmitting
  /\ controller = "resolver" /\ via = "enter" => ~page.enterGuard
  /\ page' = CheckAnswer(page, challengeType, via, text)
  /\ UNCHANGED <<evars, controller>>
  /\ UNCHANGED svars
  /\ UNCHANGED ivars
  /\ UNCHANGED cvars

\* setTimeout(() => { isSubmitting = false; }, 150) and
\* setTimeout(() => { enterGuard = false; }, 300)
PageDebounce ==
  /\ page.isSubmitting \/ page.enterGuard
  /\ \/ /\ page.isSubmitting
        /\ page' = [page EXCEPT !.isSubmitting = FALSE]
     \/ /\ page.enterGuard
        /\ page' = [page EXCEPT !.enterGuard = FALSE]
  /\ UNCHANGED <<evars, controller>>
  /\ UNCHANGED svars
  /\ UNCHANGED ivars
  /\ UNCHANGED cvars

\* a request of the page script reaches the server if it still listens
PagePosts(u) ==
  IF server = "listening" /\ reqCount < MaxRequests
    THEN ServerEffect("POST", u)
    ELSE UNCHANGED <<reqCount, challengeResult, events, immediate,
                     resolveChallenge>>

\* setTimeout(() => approveCommand(), 1000)
PageApproves ==
  /\ page.approveTimer
  /\ page' = [page EXCEPT !.approveTimer = FALSE]
  /\ PagePosts("/approve")
  /\ UNCHANGED <<evars, controller, spc, server, challengePromise, timeoutId,
                 intervalId, retval, sessions, resolverCalls>>
  /\ UNCHANGED ivars
  /\ UNCHANGED cvars

\* setTimeout(() => denyCommand(), 2000)
PageDenies ==
  /\ page.denyTimer
  /\ page' = [page EXCEPT !.denyTimer = FALSE]
  /\ PagePosts("/deny")
  /\ UNCHANGED <<evars, controller, spc, server, challengePromise, timeoutId,
                 intervalId, retval, sessions, resolverCalls>>
  /\ UNCHANGED ivars
  /\ UNCHANGED cvars

\* ------------------------------------------------------ the specification
Next ==
  \/ \E ct \in ChallengeTypes : InterceptCommand(ct)
  \/ \E vr \in ValidationResults : ValidationReturns(vr)
  \/ ValidationThrows
  \/ \E ok \in BOOLEAN, arg \in PropagateValues, environment \in Environments :
       ExecCompletes(ok, arg, environment)
  \/ ChallengeReturns
  \/ ChallengeThrows
  \/ StartChallenge
  \/ BrowserLaunchFails
  \/ ServerListening
  \/ ListenFails
  \/ \E m \in Methods, u \in Urls : HandleRequest(m, u)
  \/ RunResolver
  \/ ArmTimeout
  \/ StartPolling
  \/ PageOpened
  \/ PageGotoFails
  \/ PollTick
  \/ DeadlineFires
  \/ PageClosed
  \/ ServerClosed
  \/ ClientConnects
  \/ ClientDisconnects
  \/ \E via \in {"click", "enter"}, text \in Texts : PageSubmit(via, text)
  \/ PageDebounce
  \/ PageApproves
  \/ PageDenies

Spec == Init /\ [][Next]_vars

\* ---------------------------------------------------- validation engine
\* The characters of a command line: e is a harmless word, R a text the
\* critical rule fs:recursively_delete matches, L a text the low rule
\* git:add_all matches; the rest are themselves.
Chars == {"e", "R", "L", " ", "&", "|", ";", "'", "\"", "\\"}

Separators == {"&", "|", ";"}

RECURSIVE SeqsUpTo(_)
SeqsUpTo(n) ==
  IF n = 0 THEN {<<>>}
  ELSE LET shorter == SeqsUpTo(n - 1)
       IN  shorter \cup {Append(q, c) : q \in {x \in shorter : Len(x) = n - 1},
                                        c \in Chars}

Commands == SeqsUpTo(MaxLen)

Severities == {"low", "medium", "high", "critical"}

\* the catalog, in iteration order.  An anchored pattern matches only at
\* the start of the sub-command, the other anywhere in it; a rule with a
\* predicate applies only if the path its match captured exists
RuleDelete == [id |-> "fs:recursively_delete", severity |-> "critical",
               description |-> "You are going to delete everything in the path.",
               trigger |-> "R", anchored |-> TRUE, predicate |-> TRUE]
RuleAddAll == [id |-> "git:add_all", severity |-> "low",
               description |-> "This command will add all files to the index.",
               trigger |-> "L", anchored |-> FALSE, predicate |-> FALSE]
Catalog == <<RuleDelete, RuleAddAll>>

RuleIds == {Catalog[i].id : i \in 1..Len(Catalog)}

\* the options a call is made with
OptionValues ==
  [deny_pattern_ids : SUBSET RuleIds,
   allowed_severities : {{}, {"critical", "high"}, {"low"}}]

RECURSIVE TrimLeft(_)
TrimLeft(t) ==
  IF t # <<>> /\ Head(t) = " " THEN TrimLeft(Tail(t)) ELSE t

RECURSIVE TrimRight(_)
TrimRight(t) ==
  IF t # <<>> /\ t[Len(t)] = " " THEN TrimRight(SubSeq(t, 1, Len(t) - 1))
  ELSE t

Trim(t) == TrimRight(TrimLeft(t))

\* the scan of the splitter: quote is "none", "single" or "double", esc
\* tells that the previous character was an escaping backslash; the result
\* is the raw parts, or <<>> with balanced = FALSE when a quote stays open
RECURSIVE Scan(_, _, _, _, _, _)
Scan(s, i, quote, esc, cur, parts) ==
  IF i > Len(s)
    THEN [balanced |-> quote = "none", parts |-> Append(parts, cur)]
    ELSE LET c == s[i] IN
      IF esc THEN Scan(s, i + 1, quote, FALSE, Append(cur, c), parts)
      ELSE IF quote = "single"
        THEN Scan(s, i + 1, IF c = "'" THEN "none" ELSE "single", FALSE,
                  Append(cur, c), parts)
      ELSE IF quote = "double"
        THEN Scan(s, i + 1, IF c = "\"" THEN "none" ELSE "double", c = "\\",
                  Append(cur, c), parts)
      ELSE IF c \in Separators
        THEN Scan(s, i + 1, "none", FALSE, <<>>, Append(parts, cur))
      ELSE Scan(s, i + 1,
                CASE c = "'" -> "single" [] c = "\"" -> "double"
                  [] OTHER -> "none",
                c = "\\", Append(cur, c), parts)

\* trimmed parts, the empty ones dropped
Cleaned(parts) ==
  SelectSeq([i \in 1..Len(parts) |-> Trim(parts[i])], LAMBDA t : t # <<>>)

\* a splitter that drops the empty parts without trimming any
SplitUntrimmed(s) ==
  LET r == Scan(s, 1, "none", FALSE, <<>>, <<>>)
  IN  SelectSeq(IF r.balanced THEN r.parts ELSE <<s>>, LAMBDA t : t # <<>>)

\* the command splitter: the sub-commands of a command line, the whole
\* line as one part when a quote is unbalanced
SplitCommand(s) ==
  LET r == Scan(s, 1, "none", FALSE, <<>>, <<>>)
  IN  IF r.balanced THEN Cleaned(r.parts) ELSE Cleaned(<<s>>)

\* the rule's pattern matches the sub-command
Fires(rule, part) ==
  IF rule.anchored THEN part # <<>> /\ Head(part) = rule.trigger
  ELSE \E i \in 1..Len(part) : part[i] = rule.trigger

\* the matcher: the rules matching one sub-command, in catalog order
MatchOne(part) == SelectSeq(Catalog, LAMBDA rule : Fires(rule, part))

RECURSIVE Flatten(_)
Flatten(lists) ==
  IF lists = <<>> THEN <<>> ELSE Head(lists) \o Flatten(Tail(lists))

\* the filter pipeline: severity allow-list, then runtime predicates
Filter(matches, opts, exists) ==
  LET bySeverity ==
        SelectSeq(matches, LAMBDA m :
          opts.allowed_severities = {} \/ m.severity \in opts.allowed_severities)
  IN  SelectSeq(bySeverity, LAMBDA m : m.predicate => exists)

\* the decision function
Decide(kept, opts) ==
  LET challenge == kept # <<>>
  IN  [matches |-> kept,
       should_challenge |-> challenge,
       should_deny |-> challenge /\ \E i \in 1..Len(kept) :
                                      kept[i].id \in opts.deny_pattern_ids]

\* validate_command_with_options_wasm: split, match each part, filter, decide
ValidateWithOptionsWasm(cmd, opts, exists) ==
  LET parts == SplitCommand(cmd)
      raw == Flatten([i \in 1..Len(parts) |-> MatchOne(parts[i])])
  IN  Decide(Filter(raw, opts, exists), opts)

\* the options object handed to WASM: a list is set only when non-empty
WasmOptions(opts) ==
  [deny_pattern_ids |->
     IF Cardinality(opts.deny_pattern_ids) > 0 THEN opts.deny_pattern_ids
     ELSE {},
   allowed_severities |->
     IF Cardinality(opts.allowed_severities) > 0 THEN opts.allowed_severities
     ELSE {}]

\* validate_command_wasm: the same without the split logic
ValidateWasm(cmd, opts, exists) ==
  Decide(Filter(MatchOne(Trim(cmd)), opts, exists), opts)

\* the wrapper reading should_challenge and should_deny from each other
ValidateFlagsSwapped(cmd, opts, exists) ==
  LET result == ValidateWithOptionsWasm(cmd, WasmOptions(opts), exists)
  IN  [matches |-> result.matches,
       should_challenge |-> result.should_deny,
       should_deny |-> result.should_challenge]

\* the wrapper returning an empty matches list
ValidateMatchesDropped(cmd, opts, exists) ==
  LET result == ValidateWithOptionsWasm(cmd, WasmOptions(opts), exists)
  IN  [matches |-> <<>>,
       should_challenge |-> result.should_challenge,
       should_deny |-> result.should_deny]

\* the wrapper calling validate_command_wasm, as validateCommand does
ValidateUnsplit(cmd, opts, exists) ==
  LET result == ValidateWasm(cmd, WasmOptions(opts), exists)
  IN  [matches |-> result.matches,
       should_challenge |-> result.should_challenge,
       should_deny |-> result.should_deny]

\* the wrapper never calling set_allowed_severities
ValidateSeveritiesUnset(cmd, opts, exists) ==
  LET result == ValidateWithOptionsWasm(
                  cmd, [WasmOptions(opts) EXCEPT !.allowed_severities = {}],
                  exists)
  IN  [matches |-> result.matches,
       should_challenge |-> result.should_challenge,
       should_deny |-> result.should_deny]

\* validateSplitCommandWithOptions: the TypeScript wrapper around the call
ValidateSplitCommandWithOptions(cmd, opts, exists) ==
  LET result == ValidateWithOptionsWasm(cmd, WasmOptions(opts), exists)
  IN  [matches |-> result.matches,
       should_challenge |-> result.should_challenge,
       should_deny |-> result.should_deny]

\* one validation call on the command line
ValidateCall(opts, exists) ==
  /\ vpc = "ready"
  /\ vpc' = "done"
  /\ options' = opts
  /\ pathExists' = exists
  /\ vresult' = Some(ValidateSplitCommandWithOptions(command, opts, exists))
  /\ UNCHANGED <<command, controller, page>>
  /\ UNCHANGED ivars
  /\ UNCHANGED svars
  /\ UNCHANGED cvars

InitValidate ==
  /\ command \in Commands
  /\ vpc = "ready"
  /\ options = NoOptions
  /\ pathExists = TRUE
  /\ vresult = Null
  /\ challengeData = Null
  /\ html = Null
  /\ startup = NoStartup
  /\ lastReq = Null
  /\ toolResponse = Null
  /\ wasm = NoWasm
  /\ calls = <<>>
  /\ controller = "resolver"
  /\ ipc = "idle"
  /\ challengeType = "confirm"
  /\ validationResult = Null
  /\ interceptResult = Null
  /\ execCalls = 0
  /\ execOptions = Null
  /\ spc = "idle"
  /\ server = "null"
  /\ challengeResult = Null
  /\ resolveChallenge = FALSE
  /\ immediate = Null
  /\ challengePromise = Null
  /\ timeoutId = FALSE
  /\ intervalId = FALSE
  /\ retval = Null
  /\ sessions = 0
  /\ events = <<>>
  /\ resolverCalls = 0
  /\ reqCount = 0
  /\ page = NoPage
  /\ sockets = 0
  /\ cancelled = FALSE
  /\ cleanups = <<>>
  /\ insts = <<>>

NextValidate ==
  \E opts \in OptionValues, exists \in BOOLEAN : ValidateCall(opts, exists)

SpecValidate == InitValidate /\ [][NextValidate]_vars

\* ------------------------------------------- the gate on its validator
\* the command lines given to interceptCommand
GateCommands == {<<>>, <<" ">>, <<"e">>, <<"R">>, <<"e", ";", "R">>}

\* validation resolved with what validateSplitCommandWithOptions computes
\* for the command under { allowed_severities, deny_pattern_ids: [] }
ValidationComputes(exists) ==
  /\ Decided(ValidateSplitCommandWithOptions(
               command,
               [deny_pattern_ids |-> {},
                allowed_severities |-> options.allowed_severities],
               exists))
  /\ pathExists' = exists
  /\ vresult' = validationResult'
  /\ UNCHANGED <<command, vpc, options>>

InitGate ==
  /\ controller \in Controllers
  /\ ipc = "idle"
  /\ challengeType = "confirm"
  /\ validationResult = Null
  /\ interceptResult = Null
  /\ execCalls = 0
  /\ execOptions = Null
  /\ spc = "idle"
  /\ server = "null"
  /\ challengeResult = Null
  /\ resolveChallenge = FALSE
  /\ immediate = Null
  /\ challengePromise = Null
  /\ timeoutId = FALSE
  /\ intervalId = FALSE
  /\ retval = Null
  /\ sessions = 0
  /\ events = <<>>
  /\ resolverCalls = 0
  /\ reqCount = 0
  /\ page = NoPage
  /\ sockets = 0
  /\ cancelled = FALSE
  /\ cleanups = <<>>
  /\ insts = <<>>
  /\ command \in GateCommands
  /\ vpc = "gate"
  /\ options \in {o \in OptionValues : o.deny_pattern_ids = {}}
  /\ pathExists = TRUE
  /\ vresult = Null
  /\ challengeData = Null
  /\ html = Null
  /\ startup = NoStartup
  /\ lastReq = Null
  /\ toolResponse = Null
  /\ wasm = NoWasm
  /\ calls = <<>>

NextGate ==
  \/ \E ct \in ChallengeTypes : InterceptCommand(ct)
  \/ \E exists \in BOOLEAN : ValidationComputes(exists)
  \/ ValidationThrows
  \/ \E ok \in BOOLEAN, arg \in PropagateValues, environment \in Environments :
       ExecCompletes(ok, arg, environment)
  \/ ChallengeReturns
  \/ ChallengeThrows
  \/ StartChallenge
  \/ BrowserLaunchFails
  \/ ServerListening
  \/ ListenFails
  \/ \E m \in Methods, u \in Urls : HandleRequest(m, u)
  \/ RunResolver
  \/ ArmTimeout
  \/ StartPolling
  \/ PageOpened
  \/ PageGotoFails
  \/ PollTick
  \/ DeadlineFires
  \/ PageClosed
  \/ ServerClosed
  \/ ClientConnects
  \/ ClientDisconnects
  \/ \E via \in {"click", "enter"}, text \in Texts : PageSubmit(via, text)
  \/ PageDebounce
  \/ PageApproves
  \/ PageDenies

SpecGate == InitGate /\ [][NextGate]_vars

\* ------------------------------------------------ cancelling a session
\* cleanup() without the test of this.server and without its try/catch:
\* a call that finds no server fails
CleanupUnguarded ==
  /\ controller = "resolver"
  /\ spc \in {"notice", "racing", "closing", "returned"}
  /\ Len(cleanups) < MaxCleanups
  /\ cleanups' = Append(cleanups, IF server = "null" THEN "error" ELSE "ok")
  /\ IF server = "listening"
       THEN /\ cancelled' = TRUE
            /\ server' = "closing"
            /\ sockets' = 0
       ELSE UNCHANGED <<cancelled, server, sockets>>
  /\ UNCHANGED <<evars, controller, page, spc, insts, rvars, challengeResult,
                 resolveChallenge, immediate, challengePromise, timeoutId,
                 intervalId, retval, sessions, events, resolverCalls,
                 reqCount>>
  /\ UNCHANGED ivars

\* cleanup() called by the holder of the instance.  While showChallenge is
\* pending stopChallengeServer destroys the tracked sockets and calls
\* close, the pending promise and the resolver being left as they are; on
\* a server that is closing it adds a close callback; with this.server
\* null it does nothing
Cleanup ==
  /\ controller = "resolver"
  /\ spc \in {"notice", "racing", "closing", "returned"}
  /\ Len(cleanups) < MaxCleanups
  /\ cleanups' = Append(cleanups, "ok")
  /\ IF server = "listening"
       THEN /\ cancelled' = TRUE
            /\ server' = "closing"
            /\ sockets' = 0
       ELSE UNCHANGED <<cancelled, server, sockets>>
  /\ UNCHANGED <<evars, controller, page, spc, insts, rvars, challengeResult,
                 resolveChallenge, immediate, challengePromise, timeoutId,
                 intervalId, retval, sessions, events, resolverCalls,
                 reqCount>>
  /\ UNCHANGED ivars

\* the close callback of cleanup's stopChallengeServer
CleanupClosed ==
  /\ cancelled
  /\ server = "closing"
  /\ spc # "closing"
  /\ server' = "null"
  /\ UNCHANGED <<evars, controller, page, spc, challengeResult,
                 resolveChallenge, immediate, challengePromise, timeoutId,
                 intervalId, retval, sessions, events, resolverCalls,
                 reqCount>>
  /\ UNCHANGED ivars
  /\ UNCHANGED cvars

NextCancel ==
  \/ Next
  \/ Cleanup
  \/ CleanupClosed

SpecCancel == Init /\ [][NextCancel]_vars

\* ---------------------------------------------------- concurrent sessions
\* Two static showChallenge calls in flight: each creates its own
\* BrowserChallenge (resolver version), whose fields are per instance.
Instances == {1, 2}
Ports == 1..MaxPorts

\* the fields of a new BrowserChallenge and the locals of its showChallenge;
\* ev lists the /approve, /deny and deadline events of the instance's own
\* server and timer, in order
NewInstance ==
  [pc |-> "idle", type |-> "confirm", port |-> 0, challengeResult |-> Null,
   resolveChallenge |-> FALSE, immediate |-> Null, challengePromise |-> Null,
   timeoutId |-> FALSE, retval |-> Null, ev |-> <<>>, reqs |-> 0]

\* everything but the instances
single == <<evars, ivars, svars, rvars, controller, page, sockets, cancelled,
           cleanups>>

\* static showChallenge(t): new BrowserChallenge(), createServer, listen(0)
PairShow(i, t) ==
  /\ insts[i].pc = "idle"
  /\ insts' = [insts EXCEPT ![i].pc = "listen", ![i].type = t]
  /\ UNCHANGED single

\* the listen callback: the system assigned a port no listener holds; the
\* one-shot resolver is installed
PairListening(i, p) ==
  /\ insts[i].pc = "listen"
  /\ \A j \in Instances : insts[j].port # p
  /\ insts' = [insts EXCEPT ![i].pc = "notice", ![i].port = p,
                            ![i].challengeResult = Null,
                            ![i].resolveChallenge = TRUE]
  /\ UNCHANGED single

\* the handler of instance i serving one request
PairServe(i, m, u) ==
  LET r == Route("resolver", m, u)
      me == insts[i]
      result == IF r = "approve" THEN ApprovedResult(me.type)
                ELSE DeniedResult(me.type)
  IN  IF r \in {"approve", "deny"}
        THEN [me EXCEPT !.reqs = me.reqs + 1,
                        !.challengeResult = Some(result),
                        !.ev = Append(me.ev, r),
                        !.immediate = IF me.resolveChallenge THEN Some(result)
                                      ELSE me.immediate,
                        !.resolveChallenge = FALSE]
        ELSE [me EXCEPT !.reqs = me.reqs + 1]

\* a handler writing the slot and taking the resolver of every instance, as
\* it would with static fields
PairRequestShared(p, m, u) ==
  /\ \E i \in Instances :
       /\ insts[i].port = p
       /\ insts[i].pc \in {"notice", "racing"}
       /\ insts[i].reqs < MaxRequests
  /\ insts' = [j \in Instances |->
                 IF insts[j].pc \in {"notice", "racing"}
                   THEN [PairServe(j, m, u) EXCEPT !.ev = insts[j].ev
                           \o (IF insts[j].port = p
                                  /\ Route("resolver", m, u)
                                       \in {"approve", "deny"}
                                 THEN <<Route("resolver", m, u)>> ELSE <<>>),
                           !.reqs = insts[j].reqs
                                      + (IF insts[j].port = p THEN 1 ELSE 0)]
                   ELSE insts[j]]
  /\ UNCHANGED single

\* a request sent to port p reaches the server listening on it and its
\* handler, which closes over that instance
PairRequest(p, m, u) ==
  /\ \E i \in Instances :
       /\ insts[i].port = p
       /\ insts[i].pc \in {"notice", "racing"}
       /\ insts[i].reqs < MaxRequests
       /\ insts' = [insts EXCEPT ![i] = PairServe(i, m, u)]
  /\ UNCHANGED single

\* instance i leaves the race with r and stops its server
PairSettled(i, r) ==
  [insts[i] EXCEPT !.pc = "closing", !.retval = Some(r), !.timeoutId = FALSE]

\* the setImmediate callback of instance i
PairRunResolver(i) ==
  /\ ~IsNull(insts[i].immediate)
  /\ LET me == insts[i]
         settled == [me EXCEPT
                       !.immediate = Null,
                       !.challengeResult =
                          IF IsNull(me.challengeResult) THEN me.immediate
                          ELSE me.challengeResult,
                       !.challengePromise =
                          IF IsNull(me.challengePromise) THEN me.immediate
                          ELSE me.challengePromise]
     IN  insts' = [insts EXCEPT ![i] =
                     IF me.pc = "racing"
                       THEN [settled EXCEPT !.pc = "closing",
                                            !.retval = me.immediate,
                                            !.timeoutId = FALSE]
                       ELSE settled]
  /\ UNCHANGED single

\* instance i arms its deadline and starts the race
PairArm(i) ==
  /\ insts[i].pc = "notice"
  /\ insts' = [insts EXCEPT ![i] =
                 IF IsNull(insts[i].challengePromise)
                   THEN [insts[i] EXCEPT !.pc = "racing", !.timeoutId = TRUE]
                   ELSE PairSettled(i, Val(insts[i].challengePromise))]
  /\ UNCHANGED single

\* the deadline of instance i
PairDeadline(i) ==
  /\ insts[i].pc = "racing"
  /\ insts[i].timeoutId
  /\ IsNull(insts[i].immediate)
  /\ insts' = [insts EXCEPT ![i] =
                 [PairSettled(i, TimeoutResult(insts[i].type))
                    EXCEPT !.ev = Append(insts[i].ev, "timeout")]]
  /\ UNCHANGED single

\* the close callback of instance i: its port is released
PairClosed(i) ==
  /\ insts[i].pc = "closing"
  /\ insts' = [insts EXCEPT ![i].pc = "returned", ![i].port = 0]
  /\ UNCHANGED single

InitPair ==
  /\ controller = "resolver"
  /\ ipc = "idle"
  /\ challengeType = "confirm"
  /\ validationResult = Null
  /\ interceptResult = Null
  /\ execCalls = 0
  /\ execOptions = Null
  /\ spc = "idle"
  /\ server = "null"
  /\ challengeResult = Null
  /\ resolveChallenge = FALSE
  /\ immediate = Null
  /\ challengePromise = Null
  /\ timeoutId = FALSE
  /\ intervalId = FALSE
  /\ retval = Null
  /\ sessions = 0
  /\ events = <<>>
  /\ resolverCalls = 0
  /\ reqCount = 0
  /\ page = NoPage
  /\ sockets = 0
  /\ cancelled = FALSE
  /\ cleanups = <<>>
  /\ insts = [i \in Instances |-> NewInstance]
  /\ command = <<>>
  /\ vpc = "off"
  /\ options = NoOptions
  /\ pathExists = TRUE
  /\ vresult = Null
  /\ challengeData = Null
  /\ html = Null
  /\ startup = NoStartup
  /\ lastReq = Null
  /\ toolResponse = Null
  /\ wasm = NoWasm
  /\ calls = <<>>

NextPair ==
  \/ \E i \in Instances, t \in {"confirm", "block"} : PairShow(i, t)
  \/ \E i \in Instances, p \in Ports : PairListening(i, p)
  \/ \E p \in Ports, m \in Methods, u \in Urls : PairRequest(p, m, u)
  \/ \E i \in Instances : PairRunResolver(i)
  \/ \E i \in Instances : PairArm(i)
  \/ \E i \in Instances : PairDeadline(i)
  \/ \E i \in Instances : PairClosed(i)

SpecPair == InitPair /\ [][NextPair]_vars

\* ------------------------------------------- the data shown in a challenge
\* Texts shown in the page are sequences of pieces: "a" stands for a run of
\* harmless characters, the severity names are pieces of their own, and each
\* special character is a piece.
Special == {"&", "<", ">", "\"", "'"}
Pieces == {"a"} \cup Special

\* the command texts
PageTexts ==
  UNION {[1..n -> Pieces] : n \in 0..MaxText}

\* the matches a validation result can carry: Check.id, Check.severity
\* (the empty text when absent) and Check.description are strings
MatchInputs ==
  [id : {<<"a">>, <<"<", "a", ">">>},
   severity : {<<>>, <<"low">>, <<"medium">>, <<"high">>, <<"critical">>,
               <<"\"">>},
   description : {<<"a">>, <<"'", "&">>}]

MatchInputLists ==
  UNION {[1..n -> MatchInputs] : n \in 0..MaxMatches}

\* const severityOrder = ['low', 'medium', 'high', 'critical']
severityOrder == <<<<"low">>, <<"medium">>, <<"high">>, <<"critical">>>>

\* Array.prototype.indexOf: the first index (from 0) holding x, else -1
IndexOf(arr, x) ==
  IF \E i \in 1..Len(arr) : arr[i] = x
    THEN (CHOOSE i \in 1..Len(arr) :
            arr[i] = x /\ \A j \in 1..(i - 1) : arr[j] # x) - 1
    ELSE -1

\* the loop of getHighestSeverity from match k on
RECURSIVE HighestFrom(_, _, _)
HighestFrom(matches, k, highestSeverity) ==
  IF k > Len(matches) THEN highestSeverity
  ELSE LET severity == IF matches[k].severity = <<>> THEN <<"medium">>
                       ELSE matches[k].severity
       IN  HighestFrom(matches, k + 1,
             IF IndexOf(severityOrder, severity)
                  > IndexOf(severityOrder, highestSeverity)
               THEN severity ELSE highestSeverity)

\* getHighestSeverity(matches)
getHighestSeverity(matches) == HighestFrom(matches, 1, <<"medium">>)

\* interceptCommand builds the ChallengeData of the command and its matches
PrepareChallenge ==
  /\ IsNull(challengeData)
  /\ \E cmd \in PageTexts, matches \in MatchInputLists :
       challengeData' =
         Some([command |-> cmd,
               patterns |-> [i \in 1..Len(matches) |->
                               matches[i].description],
               severity |-> getHighestSeverity(matches),
               matches |-> matches])
  /\ UNCHANGED <<html, startup, lastReq, toolResponse, wasm, calls, evars,
                 ivars, svars, controller, page,
                 sockets, cancelled, cleanups, insts>>

\* String.prototype.replace(/c/g, e)
RECURSIVE ReplaceAll(_, _, _)
ReplaceAll(text, c, e) ==
  IF text = <<>> THEN <<>>
  ELSE (IF Head(text) = c THEN e ELSE <<Head(text)>>)
         \o ReplaceAll(Tail(text), c, e)

\* escapeHtml(text): five replacements in this order
escapeHtml(text) ==
  ReplaceAll(
    ReplaceAll(
      ReplaceAll(
        ReplaceAll(
          ReplaceAll(text, "&", <<"&", "amp;">>),
          "<", <<"&", "lt;">>),
        ">", <<"&", "gt;">>),
      "\"", <<"&", "quot;">>),
    "'", <<"&", "#x27;">>)

\* toUpperCase and toLowerCase of one piece
UpperPiece(c) ==
  CASE c = "a" -> "A" [] c = "low" -> "LOW" [] c = "medium" -> "MEDIUM"
    [] c = "high" -> "HIGH" [] c = "critical" -> "CRITICAL" [] OTHER -> c
LowerPiece(c) ==
  CASE c = "A" -> "a" [] c = "LOW" -> "low" [] c = "MEDIUM" -> "medium"
    [] c = "HIGH" -> "high" [] c = "CRITICAL" -> "critical" [] OTHER -> c
toUpperCase(text) == [i \in 1..Len(text) |-> UpperPiece(text[i])]
toLowerCase(text) == [i \in 1..Len(text) |-> LowerPiece(text[i])]

\* Array.prototype.join(', ')
RECURSIVE Join(_)
Join(texts) ==
  IF texts = <<>> THEN <<>>
  ELSE IF Len(texts) = 1 THEN texts[1]
  ELSE texts[1] \o <<", ">> \o Join(Tail(texts))

\* getMatchesListHTML(challengeData): one item per match, each given by the
\* values interpolated into the item's fixed markup
getMatchesListHTML(data) ==
  IF data.matches = <<>>
    THEN <<[sevClass |-> <<"sev-medium">>,
            id |-> <<"patterns">>,
            sev |-> <<"MEDIUM">>,
            desc |-> escapeHtml(Join(data.patterns))]>>
    ELSE [i \in 1..Len(data.matches) |->
            LET m == data.matches[i]
            IN  [sevClass |-> <<"sev-">> \o
                              toLowerCase(IF m.severity = <<>>
                                          THEN <<"medium">> ELSE m.severity),
                 id |-> escapeHtml(m.id),
                 sev |-> escapeHtml(toUpperCase(m.severity)),
                 desc |-> escapeHtml(m.description)]]

\* serveChallengeHTML: the context handed to the page template
ServeChallengeHTML ==
  /\ ~IsNull(challengeData)
  /\ IsNull(html)
  /\ LET data == Val(challengeData)
     IN  html' = Some([COMMAND |-> escapeHtml(data.command),
                       DANGER_PATTERNS |-> escapeHtml(Join(data.patterns)),
                       MATCHES_LIST |-> getMatchesListHTML(data),
                       MATCHES_COUNT |-> Len(data.matches),
                       RISK_LEVEL |-> toUpperCase(data.severity),
                       RISK_CLASS |-> <<"risk-">> \o toLowerCase(data.severity)])
  /\ UNCHANGED <<challengeData, startup, lastReq, toolResponse, wasm, calls,
                 evars, ivars, svars, controller,
                 page, sockets, cancelled, cleanups, insts>>

InitRender == Init /\ controller = "resolver"

NextRender ==
  \/ PrepareChallenge
  \/ ServeChallengeHTML

SpecRender == InitRender /\ [][NextRender]_vars

\* ------------------------------------------------------ the daemon start
\* the value given with --challenge on the command line, if any
ChallengeFlags ==
  {Null} \cup {Some(v) : v \in {"confirm", "math", "word", "block", "yes"}}

\* main(): the challenge type is the flag's value, confirm when the flag is
\* absent; a value outside allowed = ['confirm', 'math', 'word'] is reported
\* and replaced by confirm
Main(flag) ==
  /\ ~startup.parsed
  /\ ipc = "idle"
  /\ LET given == IF IsNull(flag) THEN "confirm" ELSE Val(flag)
         supported == given \in {"confirm", "math", "word"}
     IN  /\ startup' = [challenge |-> flag, parsed |-> TRUE,
                        warned |-> ~supported]
         /\ challengeType' = IF supported THEN given ELSE "confirm"
  /\ UNCHANGED <<evars, svars, controller, page, sockets, cancelled, cleanups,
                 insts, challengeData, html, lastReq, toolResponse, wasm,
                 calls, ipc, validationResult,
                 interceptResult, execCalls, execOptions>>

\* a tool call of the running server: interceptCommand is given the
\* server's challenge type
ToolCall ==
  /\ startup.parsed
  /\ InterceptCommand(challengeType)

NextDaemon ==
  \/ \E flag \in ChallengeFlags : Main(flag)
  \/ ToolCall
  \/ \E vr \in ValidationResults : ValidationReturns(vr)
  \/ ValidationThrows
  \/ \E ok \in BOOLEAN, arg \in PropagateValues, environment \in Environments :
       ExecCompletes(ok, arg, environment)
  \/ ChallengeReturns
  \/ ChallengeThrows
  \/ StartChallenge
  \/ BrowserLaunchFails
  \/ ServerListening
  \/ ListenFails
  \/ \E m \in Methods, u \in Urls : HandleRequest(m, u)
  \/ RunResolver
  \/ ArmTimeout
  \/ StartPolling
  \/ PageOpened
  \/ PageGotoFails
  \/ PollTick
  \/ DeadlineFires
  \/ PageClosed
  \/ ServerClosed
  \/ ClientConnects
  \/ ClientDisconnects
  \/ \E via \in {"click", "enter"}, text \in Texts : PageSubmit(via, text)
  \/ PageDebounce
  \/ PageApproves
  \/ PageDenies

SpecDaemon == Init /\ [][NextDaemon]_vars

\* ----------------------------------------------- the validation-only tool
\* what the validation of handleValidateCommand may end in: a result, or
\* nothing when it throws
ValidationOutcomes == {Null} \cup {Some(vr) : vr \in ValidationResults}

\* the ValidateCommandResponse for an outcome of the validation
ValidateCommandResponse(outcome) ==
  IF IsNull(outcome)
    THEN [safe |-> FALSE,
          message |-> "Shellfirm MCP: Error validating command",
          pattern |-> Null]
  ELSE IF ~Val(outcome).should_challenge
    THEN [safe |-> TRUE, message |-> "Command is safe to execute",
          pattern |-> Null]
  ELSE IF Val(outcome).should_deny
    THEN [safe |-> FALSE,
          message |-> "Shellfirm MCP: Command denied by security policy",
          pattern |-> Some(Descriptions(Val(outcome).matches))]
  ELSE [safe |-> FALSE,
        message |-> "Shellfirm MCP: Command blocked by security policy - manual approval required",
        pattern |-> Some(Descriptions(Val(outcome).matches))]

\* a validate tool that runs a command it found safe
HandleValidateExecutes(outcome) ==
  /\ startup.parsed
  /\ IsNull(toolResponse)
  /\ toolResponse' = Some([given |-> outcome,
                           response |-> ValidateCommandResponse(outcome)])
  /\ execCalls' = IF ValidateCommandResponse(outcome).safe
                  THEN execCalls + 1 ELSE execCalls
  /\ UNCHANGED <<evars, svars, controller, page, sockets, cancelled, cleanups,
                 insts, challengeData, html, startup, lastReq, wasm, calls,
                 ipc, challengeType, validationResult, interceptResult,
                 execOptions>>

\* handleValidateCommand: validate and answer, whatever the outcome
HandleValidateCommand(outcome) ==
  /\ startup.parsed
  /\ IsNull(toolResponse)
  /\ toolResponse' = Some([given |-> outcome,
                           response |-> ValidateCommandResponse(outcome)])
  /\ UNCHANGED <<evars, svars, ivars, controller, page, sockets, cancelled,
                 cleanups, insts, challengeData, html, startup, lastReq, wasm,
                 calls>>

\* the two tools of the running server, up to the point where
\* secure_shell_execute would open a challenge
NextTools ==
  \/ \E flag \in ChallengeFlags : Main(flag)
  \/ ToolCall
  \/ \E outcome \in ValidationOutcomes : HandleValidateCommand(outcome)
  \/ \E vr \in ValidationResults : ValidationReturns(vr)
  \/ ValidationThrows
  \/ \E ok \in BOOLEAN, arg \in PropagateValues, environment \in Environments :
       ExecCompletes(ok, arg, environment)

SpecTools == Init /\ [][NextTools]_vars

\* ------------------------------------------------ the session's requests
\* interceptCommand and its challenge session, every request a local client
\* can send being watched
NextServe ==
  \/ \E ct \in ChallengeTypes : InterceptCommand(ct)
  \/ \E vr \in ValidationResults : ValidationReturns(vr)
  \/ ValidationThrows
  \/ \E ok \in BOOLEAN, arg \in PropagateValues, environment \in Environments :
       ExecCompletes(ok, arg, environment)
  \/ ChallengeReturns
  \/ ChallengeThrows
  \/ StartChallenge
  \/ BrowserLaunchFails
  \/ ServerListening
  \/ ListenFails
  \/ \E m \in Methods, u \in Urls : WatchedRequest(m, u)
  \/ RunResolver
  \/ ArmTimeout
  \/ StartPolling
  \/ PageOpened
  \/ PageGotoFails
  \/ PollTick
  \/ DeadlineFires
  \/ PageClosed
  \/ ServerClosed
  \/ ClientConnects
  \/ ClientDisconnects

SpecServe == Init /\ [][NextServe]_vars

\* ------------------------------------------------------- shellfirm-wasm.ts
\* the exported functions a call may be of
WasmFunctions == {"initShellfirmWasm", "validateCommand",
                  "validateSplitCommandWithOptions"}

\* what the WASM side does with a validation: it returns a result, it traps,
\* or the free() of an options object without pointer throws
ValidatePaths == {"ok", "trap", "freeThrows"}

\* a call that has just been made
NewCall(fn) ==
  [fn |-> fn, pc |-> "enter", out |-> "none", opts |-> "none",
   res |-> "none", freedConsumed |-> FALSE, onFailed |-> FALSE]

\* the .ptr property the wrapper reads from an object of the glue classes:
\* they keep their pointer in __wbg_ptr, so .ptr is undefined
PtrOf(state) == Null

\* result && result.ptr && typeof result.ptr === 'number' && result.ptr !== 0
HasPtr(state) == state # "none" /\ ~IsNull(PtrOf(state)) /\ Val(PtrOf(state)) # 0

\* what shellfirm-wasm.ts does not touch
wrest == <<evars, ivars, svars, controller, page, sockets, cancelled,
           cleanups, insts, challengeData, html, startup, lastReq,
           toolResponse>>

\* initShellfirmWasm and every validation function start a call
StartCall(fn) ==
  /\ Len(calls) < MaxCalls
  /\ calls' = Append(calls, NewCall(fn))
  /\ UNCHANGED <<wasm, wrest>>

\* the module's init() is called: it returns or it throws
InitModule(w, i) ==
  /\ wasm' = [w EXCEPT !.initCalls = @ + 1, !.ready = @ \/ w.inits,
                       !.failed = @ \/ ~w.inits]
  /\ calls' = [calls EXCEPT ![i].pc = IF w.inits THEN "inited" ELSE "catch"]

\* require(...) is called: it returns the module, which is assigned to
\* wasmModule, or it throws
Loaded(w) ==
  [w EXCEPT !.loadCalls = @ + 1,
            !.module = IF w.loads THEN "loaded" ELSE @,
            !.failed = @ \/ ~w.loads]

\* initShellfirmWasm up to its first await: return when wasmModule is set;
\* with the pkg directory, require and init() follow in the same turn;
\* without it the call awaits logError first
EnterInit(i) ==
  /\ i <= Len(calls)
  /\ calls[i].pc = "enter"
  /\ UNCHANGED wrest
  /\ IF wasm.module # "null"
       THEN /\ calls' = [calls EXCEPT ![i].pc = "inited"]
            /\ UNCHANGED wasm
       ELSE IF wasm.pkgExists
         THEN IF ~wasm.loads
                THEN /\ wasm' = Loaded(wasm)
                     /\ calls' = [calls EXCEPT ![i].pc = "catch"]
                ELSE InitModule(Loaded(wasm), i)
         ELSE /\ calls' = [calls EXCEPT ![i].pc = "log1"]
              /\ UNCHANGED wasm

\* the fallback: logError resolved, require('shellfirm_core') is assigned
\* to wasmModule and the call awaits logError again
LoadFallback(i) ==
  /\ i <= Len(calls)
  /\ calls[i].pc = "log1"
  /\ UNCHANGED wrest
  /\ wasm' = Loaded(wasm)
  /\ calls' = [calls EXCEPT ![i].pc = IF wasm.loads THEN "log2" ELSE "catch"]

\* the fallback: the second logError resolved, init() is called
InitFallback(i) ==
  /\ i <= Len(calls)
  /\ calls[i].pc = "log2"
  /\ UNCHANGED wrest
  /\ InitModule(wasm, i)

\* the catch block of initShellfirmWasm: the call rejects, wasmModule is
\* left as it is
InitRejects(i) ==
  /\ i <= Len(calls)
  /\ calls[i].pc = "catch"
  /\ calls' = [calls EXCEPT ![i].pc = "done", ![i].out = "initError"]
  /\ UNCHANGED <<wasm, wrest>>

\* initShellfirmWasm called on its own resolved
InitResolves(i) ==
  /\ i <= Len(calls)
  /\ calls[i].pc = "inited"
  /\ calls[i].fn = "initShellfirmWasm"
  /\ calls' = [calls EXCEPT ![i].pc = "done", ![i].out = "ok"]
  /\ UNCHANGED <<wasm, wrest>>

\* validateCommand after initShellfirmWasm: the options object is created
\* and consumed by validate_command_wasm; then wasmOptions.free() and
\* result.free() are called; the catch block frees nothing
ValidateCommand(c, path) ==
  IF path = "trap"
    THEN [c EXCEPT !.pc = "done", !.out = "threw", !.opts = "consumed"]
  ELSE IF path = "freeThrows"
    THEN [c EXCEPT !.pc = "done", !.out = "threw", !.opts = "consumed",
                   !.freedConsumed = TRUE, !.res = "live"]
  ELSE [c EXCEPT !.pc = "done", !.out = "returned", !.opts = "consumed",
                 !.freedConsumed = TRUE, !.res = "freed"]

\* validateSplitCommandWithOptions after initShellfirmWasm: the options
\* object is consumed by validate_command_with_options_wasm; the finally
\* block frees what still shows a .ptr
ValidateSplit(c, path) ==
  LET opts == "consumed"
      res == IF path = "trap" THEN "none" ELSE "live"
  IN  [c EXCEPT !.pc = "done",
                !.out = IF path = "trap" THEN "threw" ELSE "returned",
                !.opts = IF HasPtr(opts) THEN "freed" ELSE opts,
                !.freedConsumed = HasPtr(opts),
                !.res = IF HasPtr(res) THEN "freed" ELSE res]

\* a validation function goes on after its await of initShellfirmWasm
Validate(i, path) ==
  /\ i <= Len(calls)
  /\ calls[i].pc = "inited"
  /\ calls[i].fn # "initShellfirmWasm"
  /\ path = "freeThrows" => calls[i].fn = "validateCommand"
  /\ LET c == [calls[i] EXCEPT !.onFailed = wasm.failed] IN
       calls' = [calls EXCEPT ![i] =
                   IF c.fn = "validateCommand" THEN ValidateCommand(c, path)
                   ELSE ValidateSplit(c, path)]
  /\ UNCHANGED <<wasm, wrest>>

InitWasm ==
  /\ controller \in Controllers
  /\ ipc = "idle"
  /\ challengeType = "confirm"
  /\ validationResult = Null
  /\ interceptResult = Null
  /\ execCalls = 0
  /\ execOptions = Null
  /\ spc = "idle"
  /\ server = "null"
  /\ challengeResult = Null
  /\ resolveChallenge = FALSE
  /\ immediate = Null
  /\ challengePromise = Null
  /\ timeoutId = FALSE
  /\ intervalId = FALSE
  /\ retval = Null
  /\ sessions = 0
  /\ events = <<>>
  /\ resolverCalls = 0
  /\ reqCount = 0
  /\ page = NoPage
  /\ sockets = 0
  /\ cancelled = FALSE
  /\ cleanups = <<>>
  /\ insts = <<>>
  /\ command = <<>>
  /\ vpc = "off"
  /\ options = NoOptions
  /\ pathExists = TRUE
  /\ vresult = Null
  /\ challengeData = Null
  /\ html = Null
  /\ startup = NoStartup
  /\ lastReq = Null
  /\ toolResponse = Null
  /\ \E pk \in BOOLEAN, ld \in BOOLEAN, it \in BOOLEAN :
       wasm = [NoWasm EXCEPT !.pkgExists = pk, !.loads = ld, !.inits = it]
  /\ calls = <<>>

NextWasm ==
  \/ \E fn \in WasmFunctions : StartCall(fn)
  \/ \E i \in 1..MaxCalls : EnterInit(i)
  \/ \E i \in 1..MaxCalls : LoadFallback(i)
  \/ \E i \in 1..MaxCalls : InitFallback(i)
  \/ \E i \in 1..MaxCalls : InitRejects(i)
  \/ \E i \in 1..MaxCalls : InitResolves(i)
  \/ \E i \in 1..MaxCalls, path \in ValidatePaths : Validate(i, path)

SpecWasm == InitWasm /\ [][NextWasm]_vars

\* ------------------------------------------- the two controllers compared
\* One session of the polling controller, in the session variables, and one
\* of the resolver controller, in instance 1, are given the same requests
\* and the same deadline once both await their verdict.
RiskyResult ==
  [matches |-> <<CheckA>>, should_challenge |-> TRUE, should_deny |-> FALSE]

\* both showChallenge calls have armed their deadline
EquivAwaiting ==
  /\ spc \in {"racing", "pageclose", "closing", "returned"}
  /\ insts[1].pc \in {"racing", "closing", "returned"}

\* the resolver session serving the request, while it awaits its verdict
TwinServe(m, u) ==
  IF insts[1].pc = "racing"
    THEN [insts EXCEPT ![1] = PairServe(1, m, u)]
    ELSE insts

\* the resolver session at the deadline: a queued setImmediate runs first
TwinDeadline ==
  IF insts[1].pc = "racing" /\ insts[1].timeoutId /\ IsNull(insts[1].immediate)
    THEN [insts EXCEPT ![1] =
            [PairSettled(1, TimeoutResult(insts[1].type))
               EXCEPT !.ev = Append(insts[1].ev, "timeout")]]
    ELSE insts

\* one request sent to both sessions
EquivRequest(m, u) ==
  /\ EquivAwaiting
  /\ insts' = TwinServe(m, u)
  /\ IF server = "listening"
       THEN /\ Serve(m, u)
            /\ UNCHANGED <<sockets, cancelled, cleanups, rvars>>
       ELSE /\ insts[1].pc = "racing"
            /\ insts[1].reqs < MaxRequests
            /\ UNCHANGED single

\* the deadline reached in both sessions
EquivDeadline ==
  /\ EquivAwaiting
  /\ insts' = TwinDeadline
  /\ IF spc = "racing" /\ timeoutId
       THEN DeadlineSettles
       ELSE /\ TwinDeadline # insts
            /\ UNCHANGED single

InitEquiv ==
  /\ controller = "polling"
  /\ ipc = "idle"
  /\ challengeType = "confirm"
  /\ validationResult = Null
  /\ interceptResult = Null
  /\ execCalls = 0
  /\ execOptions = Null
  /\ spc = "idle"
  /\ server = "null"
  /\ challengeResult = Null
  /\ resolveChallenge = FALSE
  /\ immediate = Null
  /\ challengePromise = Null
  /\ timeoutId = FALSE
  /\ intervalId = FALSE
  /\ retval = Null
  /\ sessions = 0
  /\ events = <<>>
  /\ resolverCalls = 0
  /\ reqCount = 0
  /\ page = NoPage
  /\ sockets = 0
  /\ cancelled = FALSE
  /\ cleanups = <<>>
  /\ insts = [i \in Instances |-> NewInstance]
  /\ command = <<>>
  /\ vpc = "off"
  /\ options = NoOptions
  /\ pathExists = TRUE
  /\ vresult = Null
  /\ challengeData = Null
  /\ html = Null
  /\ startup = NoStartup
  /\ lastReq = Null
  /\ toolResponse = Null
  /\ wasm = NoWasm
  /\ calls = <<>>

NextEquiv ==
  \/ InterceptCommand("confirm")
  \/ ValidationReturns(RiskyResult)
  \/ StartChallenge
  \/ ServerListening
  \/ StartPolling
  \/ PageOpened
  \/ PollTick
  \/ PageClosed
  \/ ServerClosed
  \/ PairShow(1, "confirm")
  \/ \E p \in Ports : PairListening(1, p)
  \/ PairArm(1)
  \/ PairRunResolver(1)
  \/ PairClosed(1)
  \/ \E m \in Methods, u \in Urls : EquivRequest(m, u)
  \/ EquivDeadline

SpecEquiv == InitEquiv /\ [][NextEquiv]_vars

\* ------------------------------------------------------------- properties
Validated == ~IsNull(validationResult)
Returned == ipc = "done" /\ ~IsNull(interceptResult) /\ Validated

\* C1: the command reaches exec only if validation returned
\* should_challenge=false or the challenge resolved approved=true; after a
\* deny verdict, a block, a user denial, a timeout or an error in the approval
\* path exec is never invoked.
C1_ExecOnlyWhenCleared ==
  /\ execCalls <= 1
  /\ execCalls > 0 =>
       /\ Validated
       /\ \/ ~Val(validationResult).should_challenge
          \/ ~IsNull(retval) /\ Val(retval).approved /\ spc = "returned"
  /\ (Validated /\ Val(validationResult).should_challenge
        /\ (Val(validationResult).should_deny \/ challengeType = "block"))
       => execCalls = 0
  /\ (~IsNull(retval) /\ ~Val(retval).approved) => execCalls = 0
  /\ spc = "threw" => execCalls = 0
  /\ (ipc = "done" /\ ~Validated) => execCalls = 0

\* a risky command was executed after the challenge was approved
C1_Witness ==
  /\ Returned
  /\ execCalls = 1
  /\ Val(validationResult).should_challenge
  /\ Val(retval).approved

\* C6: with neither /approve nor /deny before the deadline, showChallenge
\* resolves approved=false, with the challenge type and the timeout error,
\* and interceptCommand returns allowed=false.
C6_TimeoutDenies ==
  (events # <<>> /\ Head(events) = "timeout") =>
    /\ ~IsNull(retval)
    /\ Val(retval).approved = FALSE
    /\ Val(retval).type = challengeType
    /\ Val(retval).error = "Challenge timeout - user did not respond in time"
    /\ execCalls = 0
    /\ ipc \in {"challenge", "done"}
    /\ ipc = "done" => ~Val(interceptResult).allowed

\* interceptCommand returned after a session that only saw its deadline
C6_Witness ==
  /\ Returned
  /\ events = <<"timeout">>
  /\ spc = "returned"

\* C7: should_challenge and should_deny: interceptCommand returns
\* allowed=false with error 'Security policy violation' and the matched
\* descriptions, opens no session and executes nothing, whatever the type.
C7_DenyWithoutChallenge ==
  (Validated /\ Val(validationResult).should_challenge
     /\ Val(validationResult).should_deny) =>
    /\ Returned
    /\ Val(interceptResult).allowed = FALSE
    /\ Val(interceptResult).error = "Security policy violation"
    /\ Val(interceptResult).reasons =
         [i \in 1..Len(Val(validationResult).matches) |->
            Val(validationResult).matches[i].description]
    /\ sessions = 0
    /\ server = "null"
    /\ execCalls = 0

\* a denied command under the block challenge type, with two matches
C7_Witness ==
  /\ Returned
  /\ Val(validationResult).should_challenge
  /\ Val(validationResult).should_deny
  /\ challengeType = "block"
  /\ Len(Val(validationResult).matches) = 2

\* C8: should_challenge, not should_deny, type block: allowed=false with
\* error 'Command blocked by security policy', no session, no execution.
C8_BlockWithoutChallenge ==
  (Validated /\ Val(validationResult).should_challenge
     /\ ~Val(validationResult).should_deny /\ challengeType = "block") =>
    /\ Returned
    /\ Val(interceptResult).allowed = FALSE
    /\ Val(interceptResult).error = "Command blocked by security policy"
    /\ sessions = 0
    /\ server = "null"
    /\ execCalls = 0

\* a risky command blocked by the block challenge type
C8_Witness ==
  /\ Returned
  /\ Val(validationResult).should_challenge
  /\ ~Val(validationResult).should_deny
  /\ challengeType = "block"

\* C9: should_challenge=false: the command is executed directly and the
\* call returns allowed=true without any session, for every challenge type.
C9_SafeExecutesDirectly ==
  (Validated /\ ~Val(validationResult).should_challenge) =>
    /\ ipc \in {"executing", "done"}
    /\ execCalls = 1
    /\ sessions = 0
    /\ server = "null"
    /\ ipc = "done" => Val(interceptResult).allowed

\* a safe command executed under the block challenge type
C9_Witness ==
  /\ Returned
  /\ ~Val(validationResult).should_challenge
  /\ challengeType = "block"
  /\ Val(interceptResult).allowed
  /\ execCalls = 1

\* the result a session event stands for
EventResult(e, t) ==
  CASE e = "approve" -> [approved |-> TRUE, type |-> t, error |-> ""]
    [] e = "deny" -> [approved |-> FALSE, type |-> t, error |-> ""]
    [] OTHER -> [approved |-> FALSE, type |-> t,
                 error |-> "Challenge timeout - user did not respond in time"]

\* C4: the resolver fires exactly once: showChallenge returns the result of
\* the first event among /approve, /deny and the deadline, and later
\* /approve or /deny requests do not change it.
C4_FirstEventWins ==
  /\ resolverCalls <= 1
  /\ (spc = "returned" /\ events # <<>>) =>
       retval = <<EventResult(Head(events), challengeType)>>

\* C5: with the math or word challenge the session resolves approved=true,
\* and the command is executed, only after a submission equal to the
\* expected answer or target word.
C5_ApprovedOnlyAfterCorrectAnswer ==
  (challengeType \in {"math", "word"} /\ ~IsNull(retval)
     /\ Val(retval).approved) => page.passed

\* C2: every ValidationResult satisfies should_deny => should_challenge.
C2_DenyImpliesChallenge ==
  vpc = "done" => (Val(vresult).should_deny => Val(vresult).should_challenge)

\* a call whose command matches a rule of the deny-list
C2_Witness ==
  /\ vpc = "done"
  /\ Val(vresult).should_deny
  /\ Val(vresult).should_challenge
  /\ options.deny_pattern_ids # {}

\* C3: should_challenge is false exactly when the returned matches list,
\* the one left after the severity, predicate and deny filters, is empty.
C3_ChallengeIffMatches ==
  vpc = "done" =>
    (Val(vresult).should_challenge = FALSE <=> Val(vresult).matches = <<>>)

\* a command matching only a low rule, validated with allowed severities
\* critical and high: the match is filtered out
C3_Witness ==
  /\ vpc = "done"
  /\ \E i \in 1..Len(command) : command[i] = "L"
  /\ options.allowed_severities = {"critical", "high"}
  /\ Val(vresult).matches = <<>>
  /\ ~Val(vresult).should_challenge

\* quote and escape state of the scan before the character at position k
RECURSIVE QState(_, _)
QState(s, k) ==
  IF k = 1 THEN <<"none", FALSE>>
  ELSE LET q == QState(s, k - 1)
           c == s[k - 1]
       IN  IF q[2] THEN <<q[1], FALSE>>
           ELSE IF q[1] = "single"
             THEN <<IF c = "'" THEN "none" ELSE "single", FALSE>>
           ELSE IF q[1] = "double"
             THEN <<IF c = "\"" THEN "none" ELSE "double", c = "\\">>
           ELSE <<CASE c = "'" -> "single" [] c = "\"" -> "double"
                    [] OTHER -> "none", c = "\\">>

\* position k holds a separator outside quotes and not escaped
Cut(s, k) == s[k] \in Separators /\ QState(s, k) = <<"none", FALSE>>

\* every quote opened in s is closed
Balanced(s) == QState(s, Len(s) + 1)[1] = "none"

\* the trimmed segments of s between its unquoted separators
SubCommands(s) ==
  {Trim(SubSeq(s, i, j)) : <<i, j>> \in
     {<<a, b>> \in (1..Len(s)) \X (1..Len(s)) :
        /\ a <= b
        /\ a = 1 \/ Cut(s, a - 1)
        /\ b = Len(s) \/ Cut(s, b + 1)
        /\ \A k \in a..b : ~Cut(s, k)}}

\* a match of the rule passes the severity allow-list and its predicate
Survives(rule, opts, exists) ==
  /\ opts.allowed_severities = {} \/ rule.severity \in opts.allowed_severities
  /\ rule.predicate => exists

\* some rule of the catalog matches the part and survives the filters
Risky(part, opts, exists) ==
  \E n \in 1..Len(Catalog) :
    Fires(Catalog[n], part) /\ Survives(Catalog[n], opts, exists)

\* C10 (as stated): whenever a sub-command obtained by splitting at the
\* unquoted separators matches a rule that survives the filters, the result
\* has should_challenge=true.
C10_AnyRiskyPartChallenges ==
  vpc = "done" =>
    \A part \in SubCommands(command) :
      Risky(part, options, pathExists) => Val(vresult).should_challenge

\* C10 (amended): for a command line whose quotes are balanced, whenever a
\* sub-command obtained by splitting at the unquoted separators matches a
\* rule that survives the filters, the result has should_challenge=true,
\* whatever the position of that sub-command.
C10_BalancedRiskyPartChallenges ==
  (vpc = "done" /\ Balanced(command)) =>
    \A part \in SubCommands(command) :
      Risky(part, options, pathExists) => Val(vresult).should_challenge

\* a balanced compound line whose first sub-command is harmless and whose
\* last sub-command matches the anchored rule
C10_Witness ==
  /\ vpc = "done"
  /\ Balanced(command)
  /\ Len(SplitCommand(command)) >= 2
  /\ ~Risky(SplitCommand(command)[1], options, pathExists)
  /\ Fires(RuleDelete, SplitCommand(command)[Len(SplitCommand(command))])
  /\ ~Fires(RuleDelete, Trim(command))
  /\ Val(vresult).should_challenge

\* C11: with an empty env allow-list the child environment consists of
\* exactly the entries of the explicit environment argument.
C11_EmptyAllowListOnlyExplicit ==
  (~IsNull(execOptions) /\ Val(execOptions).propagate.kind = "array"
     /\ Val(execOptions).propagate.names = {}) =>
    Val(execOptions).env =
      {<<n, "explicit">> : n \in Val(execOptions).environment}

\* C12: with a non-empty env allow-list a process-environment variable is in
\* the child environment only if its name is on the list, and the explicit
\* environment entries are present.
C12_OnlyAllowListedPropagated ==
  (~IsNull(execOptions) /\ Val(execOptions).propagate.kind = "array"
     /\ Val(execOptions).propagate.names # {}) =>
    /\ \A n \in ProcessEnv :
         <<n, "process">> \in Val(execOptions).env
           => n \in Val(execOptions).propagate.names
    /\ \A n \in Val(execOptions).environment :
         <<n, "explicit">> \in Val(execOptions).env

\* C13: when the challenge listener cannot be started or the challenge
\* subsystem otherwise fails, interceptCommand returns allowed=false with
\* error 'Challenge system failure' and the command is not executed.
C13_ChallengeFailureReported ==
  (Returned /\ (spc = "threw"
                  \/ (~IsNull(retval) /\ Val(retval).error = "Challenge error")))
    =>
    /\ Val(interceptResult).allowed = FALSE
    /\ Val(interceptResult).error = "Challenge system failure"
    /\ execCalls = 0

\* C14: interceptCommand always resolves with a result object; when
\* validation throws the result is allowed=false with error 'Interception
\* error' and the command is not executed.
C14_NeverRejects ==
  /\ ipc = "done" => ~IsNull(interceptResult)
  /\ (ipc = "done" /\ ~Validated) =>
       /\ ~IsNull(interceptResult)
       /\ Val(interceptResult).allowed = FALSE
       /\ Val(interceptResult).error = "Interception error"
       /\ execCalls = 0

\* interceptCommand returned after its validator threw
C14_Witness ==
  /\ ipc = "done"
  /\ ~Validated
  /\ ~IsNull(interceptResult)
  /\ Val(interceptResult).error = "Interception error"

\* C15: for an empty or blank command interceptCommand returns
\* allowed=false and nothing is passed to the executor.
C15_BlankCommandDenied ==
  (ipc = "done" /\ Trim(command) = <<>>) =>
    /\ ~IsNull(interceptResult)
    /\ Val(interceptResult).allowed = FALSE
    /\ execCalls = 0

\* C16 (one pair of kinds): a call denied by a challenge timeout or by a
\* challenge transport error returns an error field different from the one
\* an explicit user denial returns, 'User denial or challenge failure'.
C16_ErrorKindsDistinct ==
  (Returned /\ ~IsNull(retval) /\ ~Val(retval).approved
     /\ Val(retval).error # "") =>
    Val(interceptResult).error # "User denial or challenge failure"

\* C17: when the admitted command fails to spawn or exits non-zero the
\* result is allowed=true with error populated, and no challenge is opened
\* because of it.
C17_ExecFailureStaysAllowed ==
  (ipc = "done" /\ ~IsNull(execOptions) /\ Val(execOptions).failed) =>
    /\ Val(interceptResult).allowed = TRUE
    /\ Val(interceptResult).error # ""
    /\ execCalls = 1
    /\ spc \in {"idle", "returned"}
    /\ sessions = IF Val(validationResult).should_challenge THEN 1 ELSE 0

\* an approved command whose execution failed
C17_Witness ==
  /\ ipc = "done"
  /\ ~IsNull(execOptions)
  /\ Val(execOptions).failed
  /\ Val(validationResult).should_challenge
  /\ Val(interceptResult).allowed
  /\ Val(interceptResult).message = "Command was allowed but execution failed"

\* C18 (safety form): once a session is resolved, the server shutdown does
\* not wait on a connection a client still holds open: while the close
\* callback is awaited no connection to the server is open.
C18_ShutdownNotBlocked ==
  spc = "closing" => sockets = 0

\* C19: when showChallenge has returned, on every terminal path, the HTTP
\* server is gone (reference cleared) and no tracked socket is left.
C19_SessionDestroyedOnReturn ==
  spc = "returned" =>
    /\ server = "null"
    /\ sockets = 0
    /\ ~IsNull(retval)

\* the resolver version's showChallenge returned after a session that
\* served requests
C19_Witness ==
  /\ spc = "returned"
  /\ controller = "resolver"
  /\ reqCount > 0
  /\ server = "null"
  /\ sockets = 0

\* C20: a cleanup issued while the session is pending makes the pending
\* showChallenge resolve with approved=false and reason cancelled.
C20_CancelFiresResolver ==
  (cancelled /\ spc = "returned") =>
    /\ Val(retval).approved = FALSE
    /\ Val(retval).error = "cancelled"

\* C21: cleanup is idempotent: every call completes without error, also
\* after showChallenge closed the session itself; a closed session stays
\* closed and the result already returned is not altered.
C21_CleanupIdempotent ==
  /\ \A i \in 1..Len(cleanups) : cleanups[i] = "ok"
  /\ spc = "returned" => (server = "null" /\ sockets = 0 /\ ~IsNull(retval))
  /\ (spc = "returned" /\ controller = "resolver" /\ events # <<>>) =>
       retval = <<EventResult(Head(events), challengeType)>>

\* cleanup was called twice on a session that showChallenge had closed
C21_Witness ==
  /\ spc = "returned"
  /\ Len(cleanups) = 2
  /\ ~cancelled
  /\ server = "null"
  /\ ~IsNull(retval)

\* C22: of two concurrent static showChallenge calls each has its own
\* server on its own port, and each returns the result of the first event of
\* its own session: requests to and the deadline of the other session do
\* not change its result.
C22_SessionsIndependent ==
  /\ \A i, j \in DOMAIN insts :
       (i # j /\ insts[i].port # 0) => insts[i].port # insts[j].port
  /\ \A i \in DOMAIN insts :
       insts[i].pc = "returned" =>
         /\ insts[i].ev # <<>>
         /\ insts[i].retval
              = <<EventResult(Head(insts[i].ev), insts[i].type)>>

\* both sessions returned, one approved and one denied
C22_Witness ==
  /\ DOMAIN insts = {1, 2}
  /\ insts[1].pc = "returned"
  /\ insts[2].pc = "returned"
  /\ Val(insts[1].retval).approved
  /\ ~Val(insts[2].retval).approved
  /\ Head(insts[2].ev) = "deny"

\* C23: a session opened with kind block never resolves with approved=true,
\* whatever requests are sent to its endpoints.
C23_BlockNeverApproved ==
  \A i \in DOMAIN insts :
    (insts[i].type = "block" /\ ~IsNull(insts[i].retval)) =>
      ~Val(insts[i].retval).approved

\* C24 (safety form): in a math or word page the third wrong submission,
\* made by the approve button or by the Enter key, schedules the automatic
\* /deny post.
C24_ThirdWrongSchedulesDeny ==
  [][(challengeType \in {"math", "word"}
        /\ page.wrong = maxAttempts - 1 /\ page'.wrong = maxAttempts)
       => page'.denyTimer]_vars

\* C25: once three wrong submissions have been made in a math or word page,
\* no later submission schedules an /approve post.
C25_NoApproveAfterThreeWrong ==
  [][(challengeType \in {"math", "word"} /\ page.wrong = maxAttempts
        /\ page'.submissions = page.submissions + 1 /\ ~page.approveTimer)
       => ~page'.approveTimer]_vars

\* the text holds none of the characters < > " ' and every & in it starts
\* one of the five entities
NoRaw(text) ==
  \A k \in 1..Len(text) :
    /\ text[k] \notin {"<", ">", "\"", "'"}
    /\ text[k] = "&" =>
         /\ k < Len(text)
         /\ text[k + 1] \in {"amp;", "lt;", "gt;", "quot;", "#x27;"}

\* C26: whatever the command and the ids, descriptions and severities of
\* the matches, none of the characters & < > " ' they hold reaches the page
\* raw: in every place the command or a match field is embedded it appears
\* as its entity.
C26_EmbeddedTextEscaped ==
  ~IsNull(html) =>
    /\ NoRaw(Val(html).COMMAND)
    /\ \A i \in 1..Len(Val(html).MATCHES_LIST) :
         LET item == Val(html).MATCHES_LIST[i]
         IN  /\ NoRaw(item.sevClass)
             /\ NoRaw(item.id)
             /\ NoRaw(item.sev)
             /\ NoRaw(item.desc)

\* rank of a severity under low < medium < high < critical, medium
\* standing in for an absent one
Rank(severity) ==
  CASE severity = <<"low">> -> 1
    [] severity = <<"medium">> -> 2
    [] severity = <<"high">> -> 3
    [] severity = <<"critical">> -> 4
    [] severity = <<>> -> 2

\* C27: the severity of the challenge is the maximum of the severities of
\* the matches under low < medium < high < critical, an absent severity
\* counting as medium.
C27_SeverityIsMaximum ==
  (~IsNull(challengeData) /\ Val(challengeData).matches # <<>>
     /\ \A i \in 1..Len(Val(challengeData).matches) :
          Val(challengeData).matches[i].severity
            \in {<<>>, <<"low">>, <<"medium">>, <<"high">>, <<"critical">>})
    =>
    LET ms == Val(challengeData).matches
    IN  /\ \E i \in 1..Len(ms) : Rank(ms[i].severity)
                                   = Rank(Val(challengeData).severity)
        /\ \A i \in 1..Len(ms) : Rank(ms[i].severity)
                                   <= Rank(Val(challengeData).severity)

\* the matches of the parts of the command line, before any filter
RawMatches(cmd) ==
  LET parts == SplitCommand(cmd)
  IN  Flatten([i \in 1..Len(parts) |-> MatchOne(parts[i])])

\* C28: with a non-empty allowed_severities every match of the result has a
\* severity in it, and a command whose matches all have other severities
\* yields should_challenge=false; with an empty allowed_severities every
\* match that passes its predicate is in the result.
C28_SeverityAllowList ==
  vpc = "done" =>
    LET r == Val(vresult)
        raw == RawMatches(command)
        allowed == options.allowed_severities
    IN  /\ allowed # {} =>
              /\ \A i \in 1..Len(r.matches) : r.matches[i].severity \in allowed
              /\ (\A i \in 1..Len(raw) : raw[i].severity \notin allowed)
                   => ~r.should_challenge
        /\ allowed = {} =>
              \A i \in 1..Len(raw) :
                (raw[i].predicate => pathExists) =>
                  \E j \in 1..Len(r.matches) : r.matches[j].id = raw[i].id

\* a command line matching the critical and the low rule, validated with
\* allowed severities {low}: only the low match is returned
C28_Witness ==
  /\ vpc = "done"
  /\ options.allowed_severities = {"low"}
  /\ pathExists
  /\ \E i \in 1..Len(RawMatches(command)) :
       RawMatches(command)[i].severity = "critical"
  /\ Len(Val(vresult).matches) = 1
  /\ Val(vresult).matches[1].severity = "low"
  /\ Val(vresult).should_challenge

\* parts.join(" && ")
RECURSIVE JoinAnd(_)
JoinAnd(parts) ==
  IF parts = <<>> THEN <<>>
  ELSE IF Len(parts) = 1 THEN parts[1]
  ELSE parts[1] \o <<" ", "&", "&", " ">> \o JoinAnd(Tail(parts))

\* C29: splitting the parts of split(x) joined with " && " yields the same
\* non-empty parts in the same order as split(x).
C29_SplitIdempotent ==
  vpc = "done" =>
    SplitCommand(JoinAnd(SplitCommand(command))) = SplitCommand(command)

\* a validated command line of several parts that is not written with
\* " && " and holds a quote or a backslash
C29_Witness ==
  /\ vpc = "done"
  /\ Len(SplitCommand(command)) >= 2
  /\ JoinAnd(SplitCommand(command)) # command
  /\ \E i \in 1..Len(command) : command[i] \in {"'", "\"", "\\"}
  /\ SplitCommand(JoinAnd(SplitCommand(command))) = SplitCommand(command)

\* C30: once main() has read the command line, the challenge type of the
\* server is the --challenge value when that value is confirm, math, word
\* or block, and confirm for any other value or without the flag.
C30_EffectiveChallengeType ==
  startup.parsed =>
    challengeType =
      IF ~IsNull(startup.challenge)
           /\ Val(startup.challenge) \in {"confirm", "math", "word", "block"}
        THEN Val(startup.challenge)
        ELSE "confirm"

\* the request handled by this step, if the step handles one
Handled(m, u) == reqCount' = reqCount + 1 /\ lastReq' = Some(<<m, u>>)

\* C31: a GET or POST request to /approve leaves the approved result in the
\* session, and a GET or POST request to /deny the denied one.
C31_EndpointsAcceptGetAndPost ==
  [][\A m \in {"GET", "POST"} :
       /\ Handled(m, "/approve")
            => challengeResult' = Some(ApprovedResult(challengeType))
       /\ Handled(m, "/deny")
            => challengeResult' = Some(DeniedResult(challengeType))]_vars

\* the request is to neither endpoint: OPTIONS, or a url other than
\* /approve and /deny (with or without a trailing slash)
Elsewhere(m, u) ==
  m = "OPTIONS" \/ u \notin {"/approve", "/approve/", "/deny", "/deny/"}

\* C34: a request other than /approve and /deny (GET /, OPTIONS on any
\* path, /favicon.ico, any other path) does not resolve the session and
\* leaves its pending result unchanged.
C34_OtherRequestsLeaveSession ==
  [][\A m \in Methods, u \in Urls :
       (Handled(m, u) /\ Elsewhere(m, u)) =>
         UNCHANGED <<challengeResult, resolveChallenge, immediate, events,
                     challengePromise, retval, spc, server>>]_vars

\* a session that is still pending after OPTIONS /approve was handled
C34_Witness ==
  /\ lastReq = Some(<<"OPTIONS", "/approve">>)
  /\ reqCount = MaxRequests
  /\ server = "listening"
  /\ IsNull(challengeResult)
  /\ IsNull(retval)
  /\ events = <<>>

\* C32: the validate_shell_command tool only validates: whatever the
\* validation ends in, it answers with a safe/unsafe verdict, safe exactly
\* when validation returned should_challenge=false, and the step executes
\* nothing and opens no challenge session.
C32_ValidateToolOnlyValidates ==
  [][toolResponse' # toolResponse =>
       /\ Val(toolResponse').response.safe \in BOOLEAN
       /\ Val(toolResponse').response.safe
            <=> /\ ~IsNull(Val(toolResponse').given)
                /\ ~Val(Val(toolResponse').given).should_challenge
       /\ UNCHANGED <<execCalls, execOptions, sessions, spc, server, ipc,
                      interceptResult, page>>]_vars

\* the tool answered unsafe for a risky command while a safe command of
\* the other tool was being executed
C32_Witness ==
  /\ ~IsNull(toolResponse)
  /\ ~IsNull(Val(toolResponse).given)
  /\ Val(Val(toolResponse).given).should_challenge
  /\ ~Val(toolResponse).response.safe
  /\ ipc = "executing"
  /\ execCalls = 1
  /\ sessions = 0

C33_NoTimerAfterReturn ==
  spc = "returned" => (~timeoutId /\ ~intervalId)

\* C36: once loading the module or its init() has thrown, no later call
\* runs a validation: every one of them fails with an error.
C36_FailedInitRefusesToServe ==
  \A i \in 1..Len(calls) : ~calls[i].onFailed

\* C37: over every interleaving of calls the module's init() is invoked at
\* most once, and calls made after a successful initialization neither
\* load nor initialize the module again.
C37_InitializedAtMostOnce ==
  [][/\ wasm'.initCalls <= 1
     /\ wasm.ready => /\ wasm'.initCalls = wasm.initCalls
                      /\ wasm'.loadCalls = wasm.loadCalls]_vars

\* C38: when a validation call has returned or thrown, the options object
\* and the result object it created have each been released once: free()
\* was not invoked on the consumed options object and the result object is
\* not left live.
C38_ObjectsReleasedOnce ==
  \A i \in 1..Len(calls) :
    (calls[i].pc = "done" /\ calls[i].opts # "none") =>
      /\ calls[i].opts \in {"consumed", "freed"}
      /\ ~calls[i].freedConsumed
      /\ calls[i].res \in {"none", "freed"}

\* C39: given the same /approve, /deny and deadline events, the polling
\* controller and the one-shot-resolver controller return the same result.
C39_ControllersAgree ==
  (spc = "returned" /\ insts[1].pc = "returned") => retval = insts[1].retval

====
